---- MODULE Spec2Model ----
(***************************************************************************)
(* A model of the GraphQL mirror (graphql/mirror.js): the SQLite database  *)
(* it owns, the transaction helper `_inTransaction`, and the operations    *)
(* Mirror construction, `_createUpdate`, `registerObject`, `findOutdated`  *)
(* and `_updateConnection`.  Every SQL statement the code runs is one      *)
(* step; `db` is the database as the connection sees it and `disk` is the  *)
(* committed (durable) database.                                           *)
(***************************************************************************)
EXTENDS Integers, Sequences, FiniteSets, TLC

(***************************************************************************)
(* Bounds of the model.                                                    *)
(***************************************************************************)
NumIds == 2         \* object ids are 1..NumIds
MaxUpdates == 2     \* rows of `updates`
MaxTime == 1         \* update timestamps are 1..MaxTime
MaxNodes == 2       \* nodes in one connection response
MaxEntries == 2     \* rows of `connection_entries`

(***************************************************************************)
(* SQL NULL and nullable columns: a nullable value is the empty set (NULL) *)
(* or a singleton.                                                         *)
(***************************************************************************)
NULL == {}
Some(v) == {v}
TheValue(o) == CHOOSE v \in o : TRUE

\* A JavaScript value that may be undefined: the empty sequence when it is
\* undefined and <<v>> when it is the value v (null being NULL).
Undefined == <<>>
Given(v) == <<v>>

Max(S) == CHOOSE m \in S : \A n \in S : n <= m

(***************************************************************************)
(* Schemas given to the constructor.  A schema is an ordered mapping       *)
(* (keys in insertion order, as Object.keys returns them).                 *)
(***************************************************************************)
IdField == [type |-> "ID"]
PrimitiveField == [type |-> "PRIMITIVE"]
NodeField(t) == [type |-> "NODE", elementType |-> t]
ConnectionField(t) == [type |-> "CONNECTION", elementType |-> t]

ActorFields ==
  [type |-> "OBJECT",
   keys |-> <<"id", "url", "login">>,
   fields |-> [id |-> IdField, url |-> PrimitiveField,
               login |-> PrimitiveField]]

GithubSchema ==
  [keys |-> <<"Repository", "Issue", "IssueComment", "Actor", "User", "Bot",
              "Organization">>,
   types |->
     [Repository |->
        [type |-> "OBJECT",
         keys |-> <<"id", "url", "issues">>,
         fields |-> [id |-> IdField, url |-> PrimitiveField,
                     issues |-> ConnectionField("Issue")]],
      Issue |->
        [type |-> "OBJECT",
         keys |-> <<"id", "url", "author", "parent", "title", "comments">>,
         fields |-> [id |-> IdField, url |-> PrimitiveField,
                     author |-> NodeField("Actor"),
                     parent |-> NodeField("Repository"),
                     title |-> PrimitiveField,
                     comments |-> ConnectionField("IssueComment")]],
      IssueComment |->
        [type |-> "OBJECT",
         keys |-> <<"id", "body", "author">>,
         fields |-> [id |-> IdField, body |-> PrimitiveField,
                     author |-> NodeField("Actor")]],
      Actor |-> [type |-> "UNION",
                 clauses |-> {"User", "Bot", "Organization"}],
      User |-> ActorFields,
      Bot |-> ActorFields,
      Organization |-> ActorFields]]

OtherSchema ==
  [keys |-> <<"B">>,
   types |-> [B |-> [type |-> "OBJECT", keys |-> <<"id">>,
                     fields |-> [id |-> IdField]]]]

UnsafeFieldSchema ==
  [keys |-> <<"A", "C">>,
   types |->
     [A |-> [type |-> "OBJECT", keys |-> <<"id">>,
             fields |-> [id |-> IdField]],
      C |-> [type |-> "OBJECT", keys |-> <<"id", "Non-Word-Characters">>,
             fields |-> ("id" :> IdField) @@
                        ("Non-Word-Characters" :> PrimitiveField)]]]

UnsafeTypeSchema ==
  [keys |-> <<"Non-Word-Characters">>,
   types |-> ("Non-Word-Characters" :>
                [type |-> "OBJECT", keys |-> <<"id">>,
                 fields |-> [id |-> IdField]])]

\* A schema whose only object type has the empty name: isSqlSafe is asked
\* about "" and the table is named "data_".
EmptyNameSchema ==
  [keys |-> <<"">>,
   types |-> ("" :> [type |-> "OBJECT", keys |-> <<"id">>,
                     fields |-> [id |-> IdField]])]

\* A schema whose union name and whose ID, NODE and CONNECTION field names
\* hold characters outside [A-Za-z0-9_]; its object type name and its
\* primitive field name are plain.
UncheckedNamesSchema ==
  [keys |-> <<"A", "Non-Word-Union">>,
   types |->
     ("A" :> [type |-> "OBJECT",
              keys |-> <<"the-id", "url", "node-field", "connection-field">>,
              fields |-> ("the-id" :> IdField) @@
                         ("url" :> PrimitiveField) @@
                         ("node-field" :> NodeField("A")) @@
                         ("connection-field" :> ConnectionField("A"))]) @@
     ("Non-Word-Union" :> [type |-> "UNION", clauses |-> {"A"}])]

Schemas ==
  <<GithubSchema, OtherSchema, UnsafeFieldSchema, UnsafeTypeSchema,
    EmptyNameSchema, UncheckedNamesSchema>>

\* stringify({version: "MIRROR_v1", schema}) of the s-th schema: a
\* canonical, key-sorted encoding, so two schemas have the same blob exactly
\* when they map the same names to the same types, whatever the order of
\* their keys.  The encoded schema is stood for by the first schema of
\* Schemas with these types.
Blob(s) ==
  [version |-> "MIRROR_v1",
   schema |-> CHOOSE i \in 1..Len(Schemas) :
                /\ Schemas[i].types = Schemas[s].types
                /\ \A j \in 1..(i - 1) : Schemas[j].types # Schemas[s].types]

\* isSqlSafe(token): no character outside [A-Za-z0-9_].
SafeChars ==
  {"A", "B", "C", "D", "E", "F", "G", "H", "I", "J", "K", "L", "M", "N", "O",
   "P", "Q", "R", "S", "T", "U", "V", "W", "X", "Y", "Z",
   "a", "b", "c", "d", "e", "f", "g", "h", "i", "j", "k", "l", "m", "n", "o",
   "p", "q", "r", "s", "t", "u", "v", "w", "x", "y", "z",
   "0", "1", "2", "3", "4", "5", "6", "7", "8", "9", "_"}
isSqlSafe(token) ==
  ~ \E i \in 1..Len(token) : SubSeq(token, i, i) \notin SafeChars

(***************************************************************************)
(* The database.  `tables` holds the names of the tables and indices that  *)
(* exist, `meta` the schema blob of the singleton row of `meta`; the other *)
(* fields are the rows of the structural tables.  (`links` and the         *)
(* `data_T` tables are created but no row is ever written to them.)  `tab`  *)
(* holds the values of the column of the table `tab (col PRIMARY KEY)`     *)
(* that the tests of _inTransaction create next to the mirror's tables.    *)
(***************************************************************************)
EmptyDb ==
  [tables |-> {}, meta |-> NULL, updates |-> {}, objects |-> {},
   connections |-> {}, connection_entries |-> {}, tab |-> {}]

structuralTables ==
  <<"updates", "objects", "links", "idx_links__parent_id__fieldname",
    "connections", "idx_connections__object_id__fieldname",
    "connection_entries", "idx_connection_entries__connection_id">>

\* INTEGER PRIMARY KEY without a given value: one more than the largest.
NextRowid(rows) ==
  IF rows = {} THEN 1 ELSE Max({r.rowid : r \in rows}) + 1

\* The result of running a statement: a failed statement changes nothing.
SqlOk(d) == [ok |-> TRUE, db |-> d]
SqlError(d) == [ok |-> FALSE, db |-> d]

\* CREATE TABLE / CREATE INDEX name: fails when the name exists.
CreateTable(d, name) ==
  IF name \in d.tables THEN SqlError(d)
  ELSE SqlOk([d EXCEPT !.tables = @ \cup {name}])

\* CREATE TABLE IF NOT EXISTS meta
CreateMetaTable(d) == SqlOk([d EXCEPT !.tables = @ \cup {"meta"}])

\* INSERT INTO meta (zero, schema) VALUES (0, ?): zero is the primary key.
InsertMeta(d, blob) ==
  IF d.meta # NULL THEN SqlError(d)
  ELSE SqlOk([d EXCEPT !.meta = Some(blob)])

\* INSERT INTO updates (time_epoch_millis) VALUES (?)
\* Variant: the update is keyed by its timestamp.
InsertUpdateByTime(d, t) ==
  SqlOk([d EXCEPT !.updates =
           {u \in @ : u.time_epoch_millis # t}
             \cup {[rowid |-> t, time_epoch_millis |-> t]}])

InsertUpdate(d, t) ==
  SqlOk([d EXCEPT !.updates =
           @ \cup {[rowid |-> NextRowid(@), time_epoch_millis |-> t]}])

\* Variant of InsertObject that stamps the new row with the latest update,
\* if there is one.
InsertObjectStamped(d, id, typename) ==
  IF \E o \in d.objects : o.id = id THEN SqlError(d)
  ELSE SqlOk([d EXCEPT !.objects =
                @ \cup {[id |-> id,
                         last_update |->
                           IF d.updates = {} THEN NULL
                           ELSE Some(Max({u.rowid : u \in d.updates})),
                         typename |-> typename]}])

\* INSERT INTO objects (id, last_update, typename) VALUES (:id, NULL, :typename)
\* id is the primary key.
InsertObject(d, id, typename) ==
  IF \E o \in d.objects : o.id = id THEN SqlError(d)
  ELSE SqlOk([d EXCEPT !.objects =
                @ \cup {[id |-> id, last_update |-> NULL,
                         typename |-> typename]}])

\* Variant of InsertConnection whose total_count column defaults to 0.
InsertConnectionZeroCount(d, id, fieldname) ==
  IF \/ \E c \in d.connections : c.object_id = id /\ c.fieldname = fieldname
     \/ ~ \E o \in d.objects : o.id = id
  THEN SqlError(d)
  ELSE SqlOk([d EXCEPT !.connections =
                @ \cup {[rowid |-> NextRowid(@), object_id |-> id,
                         fieldname |-> fieldname, last_update |-> NULL,
                         total_count |-> Some(0), has_next_page |-> NULL,
                         end_cursor |-> NULL]}])

\* INSERT INTO connections (object_id, fieldname) VALUES (:id, :fieldname)
\* UNIQUE(object_id, fieldname); object_id REFERENCES objects(id).
InsertConnection(d, id, fieldname) ==
  IF \/ \E c \in d.connections : c.object_id = id /\ c.fieldname = fieldname
     \/ ~ \E o \in d.objects : o.id = id
  THEN SqlError(d)
  ELSE SqlOk([d EXCEPT !.connections =
                @ \cup {[rowid |-> NextRowid(@), object_id |-> id,
                         fieldname |-> fieldname, last_update |-> NULL,
                         total_count |-> NULL, has_next_page |-> NULL,
                         end_cursor |-> NULL]}])

\* Variant: last_update is not checked against `updates` (no foreign key).
UpdateConnectionRowUnchecked(d, connectionId, updateId, totalCount, hasNextPage, endCursor) ==
  SqlOk([d EXCEPT !.connections =
           {IF c.rowid = connectionId
              THEN [c EXCEPT !.last_update = Some(updateId),
                             !.total_count = Some(totalCount),
                             !.has_next_page = Some(hasNextPage),
                             !.end_cursor = endCursor]
              ELSE c : c \in @}])

\* Variant: the entries of the connection are replaced, not appended to.
UpdateConnectionRowReplacing(d, connectionId, updateId, totalCount, hasNextPage, endCursor) ==
  IF /\ \E c \in d.connections : c.rowid = connectionId
     /\ ~ \E u \in d.updates : u.rowid = updateId
  THEN SqlError(d)
  ELSE SqlOk([d EXCEPT
                !.connections =
                  {IF c.rowid = connectionId
                     THEN [c EXCEPT !.last_update = Some(updateId),
                                    !.total_count = Some(totalCount),
                                    !.has_next_page = Some(hasNextPage),
                                    !.end_cursor = endCursor]
                     ELSE c : c \in @},
                !.connection_entries =
                  {e \in @ : e.connection_id # connectionId}])

\* Variant: a null end cursor keeps the stored one.
UpdateConnectionRowKeepCursor(d, connectionId, updateId, totalCount, hasNextPage, endCursor) ==
  IF /\ \E c \in d.connections : c.rowid = connectionId
     /\ ~ \E u \in d.updates : u.rowid = updateId
  THEN SqlError(d)
  ELSE SqlOk([d EXCEPT !.connections =
                {IF c.rowid = connectionId
                   THEN [c EXCEPT !.last_update = Some(updateId),
                                  !.total_count = Some(totalCount),
                                  !.has_next_page = Some(hasNextPage),
                                  !.end_cursor =
                                    IF endCursor = NULL THEN @ ELSE endCursor]
                   ELSE c : c \in @}])

\* Variant of UpdateConnectionRow that sets has_next_page to 1 whatever the
\* response says.
UpdateConnectionRowStaysOpen(d, connectionId, updateId, totalCount, hasNextPage, endCursor) ==
  IF /\ \E c \in d.connections : c.rowid = connectionId
     /\ ~ \E u \in d.updates : u.rowid = updateId
  THEN SqlError(d)
  ELSE SqlOk([d EXCEPT !.connections =
                {IF c.rowid = connectionId
                   THEN [c EXCEPT !.last_update = Some(updateId),
                                  !.total_count = Some(totalCount),
                                  !.has_next_page = Some(1),
                                  !.end_cursor = endCursor]
                   ELSE c : c \in @}])

\* Variant of UpdateConnectionRow without the WHERE clause: every row of
\* connections is updated.
UpdateConnectionRowEveryRow(d, connectionId, updateId, totalCount, hasNextPage, endCursor) ==
  IF /\ d.connections # {}
     /\ ~ \E u \in d.updates : u.rowid = updateId
  THEN SqlError(d)
  ELSE SqlOk([d EXCEPT !.connections =
                {[c EXCEPT !.last_update = Some(updateId),
                           !.total_count = Some(totalCount),
                           !.has_next_page = Some(hasNextPage),
                           !.end_cursor = endCursor] : c \in @}])

\* Variant of UpdateConnectionRow as UPDATE OR IGNORE: a row that would
\* point at a missing update is left as it is and no error is reported.
UpdateConnectionRowIgnoring(d, connectionId, updateId, totalCount, hasNextPage, endCursor) ==
  IF /\ \E c \in d.connections : c.rowid = connectionId
     /\ ~ \E u \in d.updates : u.rowid = updateId
  THEN SqlOk(d)
  ELSE SqlOk([d EXCEPT !.connections =
                {IF c.rowid = connectionId
                   THEN [c EXCEPT !.last_update = Some(updateId),
                                  !.total_count = Some(totalCount),
                                  !.has_next_page = Some(hasNextPage),
                                  !.end_cursor = endCursor]
                   ELSE c : c \in @}])

\* UPDATE connections SET last_update = :updateId, total_count = :totalCount,
\*   has_next_page = :hasNextPage, end_cursor = :endCursor
\* WHERE rowid = :connectionId
\* last_update REFERENCES updates(rowid).
UpdateConnectionRow(d, connectionId, updateId, totalCount, hasNextPage, endCursor) ==
  IF /\ \E c \in d.connections : c.rowid = connectionId
     /\ ~ \E u \in d.updates : u.rowid = updateId
  THEN SqlError(d)
  ELSE SqlOk([d EXCEPT !.connections =
                {IF c.rowid = connectionId
                   THEN [c EXCEPT !.last_update = Some(updateId),
                                  !.total_count = Some(totalCount),
                                  !.has_next_page = Some(hasNextPage),
                                  !.end_cursor = endCursor]
                   ELSE c : c \in @}])

\* INSERT INTO connection_entries (connection_id, idx, child_id)
\* VALUES (:connectionId, :idx, :childId)
\* UNIQUE(connection_id, idx); connection_id REFERENCES connections(rowid);
\* child_id REFERENCES objects(id).
InsertEntry(d, connectionId, idx, childId) ==
  IF \/ \E e \in d.connection_entries :
          e.connection_id = connectionId /\ e.idx = idx
     \/ ~ \E c \in d.connections : c.rowid = connectionId
     \/ ~ \E o \in d.objects : o.id = childId
  THEN SqlError(d)
  ELSE SqlOk([d EXCEPT !.connection_entries =
                @ \cup {[rowid |-> NextRowid(@),
                         connection_id |-> connectionId, idx |-> idx,
                         child_id |-> childId]}])

(***************************************************************************)
(* Inputs of the operations.                                               *)
(***************************************************************************)
Ids == 1..NumIds
Typenames == {"Repository", "Issue", "User", "Actor", "Wat"}
Fieldnames == {"issues", "comments", "url"}
Dates == 1..MaxTime
Thresholds == 0..(MaxTime + 1)
EndCursors == {NULL, Some("cursor")}
TotalCounts == {0, 1}
Objects == [typename : Typenames, id : Ids]
NodeFieldResults ==
  [typename : {"Repository", "Issue", "Actor", "Wat"}, id : Ids]
\* The node lists of the responses.  Every node but the last is of an
\* OBJECT type: the nodes after one that cannot be registered are never
\* read.
NodeLists ==
  {l \in UNION {[1..n -> NodeFieldResults] : n \in 0..MaxNodes} :
     \A k \in 1..(Len(l) - 1) : l[k].typename \in {"Repository", "Issue"}}
PageInfos == [hasNextPage : BOOLEAN, endCursor : EndCursors]
\* The responses given to _updateConnection vary the page information of
\* an empty page (every pair of values of totalCount, hasNextPage and
\* endCursor occurs), or the nodes of a page with fixed page information.
ConnectionFieldResults ==
  {r \in [totalCount : TotalCounts, pageInfo : PageInfos, nodes : {<<>>}] :
     (r.totalCount = 1) =
       (r.pageInfo.hasNextPage = (r.pageInfo.endCursor = NULL))}
  \cup
  [totalCount : {1},
   pageInfo : {[hasNextPage |-> FALSE, endCursor |-> Some("cursor")]},
   nodes : NodeLists]

(***************************************************************************)
(* State.                                                                  *)
(***************************************************************************)
VARIABLES
  db,             \* the database as seen through the connection
  disk,           \* the committed database
  inTransaction,  \* db.inTransaction
  mirror,         \* index in Schemas of the live Mirror's schema, 0: none
  pc,             \* position in the running operation, "idle": none
  op,             \* the running operation
  args,           \* its arguments
  loc,            \* its local variables
  pre             \* the database when the running operation was called

vars == <<db, disk, inTransaction, mirror, pc, op, args, loc, pre>>

NoArgs == [none |-> TRUE]
NoResult == [objects |-> {}, connections |-> {}]
NoLoc ==
  [error |-> "", i |-> 0, connectionId |-> 0, nextIndex |-> 0,
   nodes |-> <<>>, child |-> [typename |-> "", id |-> 0], fields |-> <<>>,
   result |-> NoResult]

Init ==
  /\ db = EmptyDb
  /\ disk = EmptyDb
  /\ inTransaction = FALSE
  /\ mirror = 0
  /\ pc = "idle"
  /\ op = "none"
  /\ args = NoArgs
  /\ loc = NoLoc
  /\ pre = EmptyDb

schema == Schemas[mirror]

(***************************************************************************)
(* _inTransaction(db, fn)                                                  *)
(***************************************************************************)
\* `throw` inside the try block: control goes to the finally block.
Throw(message) ==
  /\ pc' = "tx_finally"
  /\ loc' = [loc EXCEPT !.error = message]

\* Variant of Enter without the check of db.inTransaction: BEGIN is run
\* inside the try block and fails in an open transaction, so control goes
\* to the finally block.
EnterUnchecked(name, a, l, first) ==
  /\ pc = "idle"
  /\ op' = name
  /\ args' = a
  /\ pre' = db
  /\ IF inTransaction
       THEN /\ pc' = "tx_finally"
            /\ loc' = [l EXCEPT !.error = "SqliteError: cannot start a transaction within a transaction"]
            /\ UNCHANGED inTransaction
       ELSE /\ pc' = first
            /\ loc' = l
            /\ inTransaction' = TRUE
  /\ UNCHANGED <<db, disk, mirror>>

\* A public operation is called: _inTransaction checks db.inTransaction and
\* runs BEGIN, then the callback starts at `first`.
Enter(name, a, l, first) ==
  /\ pc = "idle"
  /\ op' = name
  /\ args' = a
  /\ pre' = db
  /\ IF inTransaction
       THEN /\ pc' = "tx_return"
            /\ loc' = [l EXCEPT !.error = "already in transaction"]
            /\ UNCHANGED inTransaction
       ELSE /\ pc' = first
            /\ loc' = l
            /\ inTransaction' = TRUE
  /\ UNCHANGED <<db, disk, mirror>>

\* Variant of TxCommit that commits only the transaction that _inTransaction
\* began itself: after a callback that ran a COMMIT or ROLLBACK of its own
\* nothing further is done.
TxCommitOwnOnly ==
  /\ pc = "tx_commit"
  /\ LET ended ==
           /\ op = "_inTransaction"
           /\ \E k \in 1..loc.i :
                args.fn.steps[k].kind \in {"COMMIT", "ROLLBACK"}
     IN IF inTransaction /\ ~ ended
          THEN /\ disk' = db
               /\ inTransaction' = FALSE
          ELSE UNCHANGED <<disk, inTransaction>>
  /\ pc' = "tx_return"
  /\ UNCHANGED <<db, mirror, op, args, loc, pre>>

\* Variant of TxCommit that returns the result without COMMIT: the finally
\* block finds the transaction still open and rolls it back.
TxCommitSkipped ==
  /\ pc = "tx_commit"
  /\ IF inTransaction
       THEN /\ db' = disk
            /\ inTransaction' = FALSE
       ELSE UNCHANGED <<db, inTransaction>>
  /\ pc' = "tx_return"
  /\ UNCHANGED <<disk, mirror, op, args, loc, pre>>

\* Variant of TxCommit that runs COMMIT whether or not a transaction is
\* open: outside a transaction the statement fails and its error is thrown.
TxCommitUnconditional ==
  /\ pc = "tx_commit"
  /\ IF inTransaction
       THEN /\ disk' = db
            /\ inTransaction' = FALSE
            /\ UNCHANGED loc
       ELSE /\ loc' = [loc EXCEPT !.error = "SqliteError: cannot commit - no transaction is active"]
            /\ UNCHANGED <<disk, inTransaction>>
  /\ pc' = "tx_return"
  /\ UNCHANGED <<db, mirror, op, args, pre>>

\* The callback returned: COMMIT if still in a transaction; the finally
\* block then finds no transaction.
TxCommit ==
  /\ pc = "tx_commit"
  /\ IF inTransaction
       THEN /\ disk' = db
            /\ inTransaction' = FALSE
       ELSE UNCHANGED <<disk, inTransaction>>
  /\ pc' = "tx_return"
  /\ UNCHANGED <<db, mirror, op, args, loc, pre>>

\* Variant: the finally block does not roll back.
TxFinallyNoRollback ==
  /\ pc = "tx_finally"
  /\ inTransaction' = FALSE
  /\ disk' = IF inTransaction THEN db ELSE disk
  /\ pc' = "tx_return"
  /\ UNCHANGED <<db, mirror, op, args, loc, pre>>

\* Variant of TxFinally that catches the error of the callback: it rolls
\* back and returns normally.
TxFinallySwallows ==
  /\ pc = "tx_finally"
  /\ IF inTransaction
       THEN /\ db' = disk
            /\ inTransaction' = FALSE
       ELSE UNCHANGED <<db, inTransaction>>
  /\ loc' = [loc EXCEPT !.error = ""]
  /\ pc' = "tx_return"
  /\ UNCHANGED <<disk, mirror, op, args, pre>>

\* The callback threw: the finally block rolls back if still in a
\* transaction, and the error propagates.
TxFinally ==
  /\ pc = "tx_finally"
  /\ IF inTransaction
       THEN /\ db' = disk
            /\ inTransaction' = FALSE
       ELSE UNCHANGED <<db, inTransaction>>
  /\ pc' = "tx_return"
  /\ UNCHANGED <<disk, mirror, op, args, loc, pre>>

\* Control is back at the caller of the operation.
Return ==
  /\ pc = "tx_return"
  /\ pc' = "idle"
  /\ mirror' = IF op = "construct" /\ loc.error = "" THEN args.schema
               ELSE mirror
  /\ op' = "none"
  /\ args' = NoArgs
  /\ loc' = NoLoc
  /\ pre' = EmptyDb
  /\ UNCHANGED <<db, disk, inTransaction>>

(***************************************************************************)
(* new Mirror(db, schema): _initialize                                     *)
(***************************************************************************)
Construct(s) ==
  Enter("construct", [schema |-> s], NoLoc, "init_meta")

InitMeta ==
  /\ pc = "init_meta"
  /\ db' = CreateMetaTable(db).db
  /\ pc' = "init_blob"
  /\ UNCHANGED <<disk, inTransaction, mirror, op, args, loc, pre>>

\* Variant of InitBlob without the early return on an equal blob: the setup
\* statements run again on the populated database.
InitBlobNoEarlyReturn ==
  /\ pc = "init_blob"
  /\ LET blob == Blob(args.schema)
         existingBlob == db.meta
     IN IF existingBlob # NULL /\ existingBlob # Some(blob)
          THEN /\ Throw("Database already populated with incompatible schema or version")
               /\ UNCHANGED db
          ELSE /\ db' = IF existingBlob = NULL THEN InsertMeta(db, blob).db
                                               ELSE db
               /\ pc' = "init_structural"
               /\ loc' = [loc EXCEPT !.i = 1]
  /\ UNCHANGED <<disk, inTransaction, mirror, op, args, pre>>

\* Variant of InitBlob that adopts the given schema when the stored blob
\* differs: the meta row is overwritten and the constructor returns.
InitBlobOverwrite ==
  /\ pc = "init_blob"
  /\ LET blob == Blob(args.schema)
         existingBlob == db.meta
     IN IF existingBlob # NULL
          THEN /\ db' = [db EXCEPT !.meta = Some(blob)]
               /\ pc' = "tx_commit"
               /\ UNCHANGED loc
          ELSE /\ db' = InsertMeta(db, blob).db
               /\ pc' = "init_structural"
               /\ loc' = [loc EXCEPT !.i = 1]
  /\ UNCHANGED <<disk, inTransaction, mirror, op, args, pre>>

\* Variant of InitBlob that commits the meta row as soon as it is inserted
\* and begins a new transaction for the rest of the setup.
InitBlobCommitsMeta ==
  /\ pc = "init_blob"
  /\ LET blob == Blob(args.schema)
         existingBlob == db.meta
     IN IF existingBlob = Some(blob)
          THEN /\ pc' = "tx_commit"
               /\ UNCHANGED <<db, disk, loc>>
          ELSE IF existingBlob # NULL
            THEN /\ Throw("Database already populated with incompatible schema or version")
                 /\ UNCHANGED <<db, disk>>
            ELSE /\ db' = InsertMeta(db, blob).db
                 /\ disk' = db'
                 /\ pc' = "init_structural"
                 /\ loc' = [loc EXCEPT !.i = 1]
  /\ UNCHANGED <<inTransaction, mirror, op, args, pre>>

\* Variant of InitBlob that resets a database populated under another
\* schema: everything is dropped and the setup runs from scratch.
InitBlobReset ==
  /\ pc = "init_blob"
  /\ LET blob == Blob(args.schema)
         existingBlob == db.meta
     IN IF existingBlob = Some(blob)
          THEN /\ pc' = "tx_commit"
               /\ UNCHANGED <<db, loc>>
          ELSE /\ db' = InsertMeta(CreateMetaTable(EmptyDb).db, blob).db
               /\ pc' = "init_structural"
               /\ loc' = [loc EXCEPT !.i = 1]
  /\ UNCHANGED <<disk, inTransaction, mirror, op, args, pre>>

InitBlob ==
  /\ pc = "init_blob"
  /\ LET blob == Blob(args.schema)
         existingBlob == db.meta
     IN IF existingBlob = Some(blob)
          THEN /\ pc' = "tx_commit"
               /\ UNCHANGED <<db, loc>>
          ELSE IF existingBlob # NULL
            THEN /\ Throw("Database already populated with incompatible schema or version")
                 /\ UNCHANGED db
            ELSE /\ db' = InsertMeta(db, blob).db
                 /\ pc' = "init_structural"
                 /\ loc' = [loc EXCEPT !.i = 1]
  /\ UNCHANGED <<disk, inTransaction, mirror, op, args, pre>>

InitStructural ==
  /\ pc = "init_structural"
  /\ LET r == CreateTable(db, structuralTables[loc.i])
     IN IF ~ r.ok
          THEN /\ Throw("SqliteError")
               /\ UNCHANGED db
          ELSE /\ db' = r.db
               /\ IF loc.i = Len(structuralTables)
                    THEN /\ pc' = "init_types"
                         /\ loc' = [loc EXCEPT !.i = 1]
                    ELSE /\ pc' = pc
                         /\ loc' = [loc EXCEPT !.i = @ + 1]
  /\ UNCHANGED <<disk, inTransaction, mirror, op, args, pre>>

\* The positions, in Object.keys(nodeType.fields), of the PRIMITIVE fields
\* whose name is not isSqlSafe, and the name the inner loop throws on.
UnsafeFields(nodeType) ==
  {k \in 1..Len(nodeType.keys) :
     /\ nodeType.fields[nodeType.keys[k]].type = "PRIMITIVE"
     /\ ~ isSqlSafe(nodeType.keys[k])}

FirstUnsafeField(nodeType) ==
  nodeType.keys[CHOOSE k \in UnsafeFields(nodeType) :
                  \A j \in UnsafeFields(nodeType) : k <= j]

\* One iteration of the loop over Object.keys(schema).
InitTypes ==
  /\ pc = "init_types"
  /\ LET s == Schemas[args.schema]
     IN IF loc.i > Len(s.keys)
          THEN /\ pc' = "tx_commit"
               /\ UNCHANGED <<db, loc>>
          ELSE LET typename == s.keys[loc.i]
                   nodeType == s.types[typename]
               IN IF nodeType.type = "UNION"
                    THEN /\ pc' = pc
                         /\ loc' = [loc EXCEPT !.i = @ + 1]
                         /\ UNCHANGED db
                    ELSE IF ~ isSqlSafe(typename)
                      THEN /\ Throw("invalid object type name: " \o typename)
                           /\ UNCHANGED db
                      ELSE IF UnsafeFields(nodeType) # {}
                        THEN /\ Throw("invalid field name: "
                                       \o FirstUnsafeField(nodeType))
                             /\ UNCHANGED db
                        ELSE LET r == CreateTable(db, "data_" \o typename)
                             IN IF ~ r.ok
                                  THEN /\ Throw("SqliteError")
                                       /\ UNCHANGED db
                                  ELSE /\ db' = r.db
                                       /\ pc' = pc
                                       /\ loc' = [loc EXCEPT !.i = @ + 1]
  /\ UNCHANGED <<disk, inTransaction, mirror, op, args, pre>>

(***************************************************************************)
(* _createUpdate(updateTimestamp): one statement outside any transaction,  *)
(* committed at once by SQLite's autocommit.                               *)
(***************************************************************************)
\* .run(+updateTimestamp).lastInsertROWID: the rowid the INSERT has given.
LastInsertROWID(d) == Max({u.rowid : u \in d.updates})

CreateUpdate(updateTimestamp) ==
  /\ pc = "idle"
  /\ mirror # 0
  /\ Cardinality(db.updates) < MaxUpdates
  /\ db' = InsertUpdate(db, updateTimestamp).db
  /\ disk' = IF inTransaction THEN disk ELSE db'
  /\ op' = "createUpdate"
  /\ args' = [updateTimestamp |-> updateTimestamp]
  /\ loc' = [NoLoc EXCEPT !.result = LastInsertROWID(db')]
  /\ pre' = db
  /\ pc' = "tx_return"
  /\ UNCHANGED <<inTransaction, mirror>>

(***************************************************************************)
(* registerObject(object) and _nontransactionallyRegisterObject(object)    *)
(***************************************************************************)
\* Variant: NODE fields get a connection row too.
ConnectionFieldnamesAndNodes(nodeType) ==
  SelectSeq(nodeType.keys,
            LAMBDA fieldname :
              nodeType.fields[fieldname].type \in {"CONNECTION", "NODE"})

\* The names of the CONNECTION fields of an OBJECT type, in key order.
ConnectionFieldnames(nodeType) ==
  SelectSeq(nodeType.keys,
            LAMBDA fieldname : nodeType.fields[fieldname].type = "CONNECTION")

\* SELECT typename FROM objects WHERE id = ?  (pluck, get)
ExistingTypename(d, id) == {o.typename : o \in {x \in d.objects : x.id = id}}

\* this._schema[typename]
HasType(s, typename) == typename \in DOMAIN s.types

\* Where control goes when _nontransactionallyRegisterObject returns, and
\* the locals there: to the end of registerObject's callback, or to the
\* insertion of the entry in _nontransactionallyUpdateConnection.
AfterRegister(l) ==
  /\ pc' = IF op = "registerObject" THEN "tx_commit" ELSE "upd_entry"
  /\ loc' = l

RegisterObject(object) ==
  /\ mirror # 0
  /\ Enter("registerObject", object, [NoLoc EXCEPT !.child = object],
           "reg_select")

\* JSON.stringify of a string, and of an object id (ids are numbered here).
stringify(str) == "\"" \o str \o "\""
stringifyId(id) == stringify(ToString(id))

\* The messages of the errors thrown by _nontransactionallyRegisterObject.
InconsistentTypeMessage(id, existingTypename, typename) ==
  "Inconsistent type for ID " \o stringifyId(id) \o ": expected "
    \o stringify(existingTypename) \o ", got " \o stringify(typename)
UnknownTypeMessage(typename) == "Unknown type: " \o stringify(typename)
UnionTypeMessage(typename) ==
  "Cannot add object of union type " \o stringify(typename)
    \o "; must specify the clause of the union"

\* Variant: an object registered before is inserted anew (INSERT OR
\* REPLACE), which resets its last_update.
RegSelectReplace ==
  /\ pc = "reg_select"
  /\ LET typename == loc.child.typename
         id == loc.child.id
         existingTypename == ExistingTypename(db, id)
     IN IF existingTypename = Some(typename)
          THEN /\ db' = [db EXCEPT !.objects =
                           {IF o.id = id THEN [o EXCEPT !.last_update = NULL]
                            ELSE o : o \in @}]
               /\ AfterRegister(loc)
          ELSE /\ UNCHANGED db
               /\ IF existingTypename # NULL
                    THEN Throw(InconsistentTypeMessage(
                                 id, TheValue(existingTypename), typename))
                    ELSE IF ~ HasType(schema, typename)
                      THEN Throw(UnknownTypeMessage(typename))
                      ELSE IF schema.types[typename].type = "UNION"
                        THEN Throw(UnionTypeMessage(typename))
                        ELSE /\ pc' = "reg_insert"
                             /\ UNCHANGED loc
  /\ UNCHANGED <<disk, inTransaction, mirror, op, args, pre>>

\* Variant: an object registered with another typename is retyped.
RegSelectOverwrite ==
  /\ pc = "reg_select"
  /\ LET typename == loc.child.typename
         id == loc.child.id
         existingTypename == ExistingTypename(db, id)
     IN IF existingTypename # NULL
          THEN /\ db' = [db EXCEPT !.objects =
                           {IF o.id = id THEN [o EXCEPT !.typename = typename]
                            ELSE o : o \in @}]
               /\ AfterRegister(loc)
          ELSE /\ UNCHANGED db
               /\ IF ~ HasType(schema, typename)
                    THEN Throw(UnknownTypeMessage(typename))
                    ELSE IF schema.types[typename].type = "UNION"
                      THEN Throw(UnionTypeMessage(typename))
                      ELSE /\ pc' = "reg_insert"
                           /\ UNCHANGED loc
  /\ UNCHANGED <<disk, inTransaction, mirror, op, args, pre>>

\* Variant: the schema is consulted before the existing row.
RegSelectSchemaFirst ==
  /\ pc = "reg_select"
  /\ LET typename == loc.child.typename
         id == loc.child.id
         existingTypename == ExistingTypename(db, id)
     IN IF ~ HasType(schema, typename)
          THEN Throw(UnknownTypeMessage(typename))
          ELSE IF schema.types[typename].type = "UNION"
            THEN Throw(UnionTypeMessage(typename))
            ELSE IF existingTypename = Some(typename)
              THEN AfterRegister(loc)
              ELSE IF existingTypename # NULL
                THEN Throw(InconsistentTypeMessage(
                             id, TheValue(existingTypename), typename))
                ELSE /\ pc' = "reg_insert"
                     /\ UNCHANGED loc
  /\ UNCHANGED <<db, disk, inTransaction, mirror, op, args, pre>>

\* Variant: an object of a type that the schema lacks is passed over.
RegSelectIgnoreUnknown ==
  /\ pc = "reg_select"
  /\ LET typename == loc.child.typename
         id == loc.child.id
         existingTypename == ExistingTypename(db, id)
     IN IF existingTypename = Some(typename)
          THEN AfterRegister(loc)
          ELSE IF existingTypename # NULL
            THEN Throw(InconsistentTypeMessage(
                         id, TheValue(existingTypename), typename))
            ELSE IF ~ HasType(schema, typename)
              THEN AfterRegister(loc)
              ELSE IF schema.types[typename].type = "UNION"
                THEN Throw(UnionTypeMessage(typename))
                ELSE /\ pc' = "reg_insert"
                     /\ UNCHANGED loc
  /\ UNCHANGED <<db, disk, inTransaction, mirror, op, args, pre>>

\* Variant: an object of a union type is registered as a member of the
\* union.
RegSelectUnionClause ==
  /\ pc = "reg_select"
  /\ LET typename == loc.child.typename
         id == loc.child.id
         existingTypename == ExistingTypename(db, id)
     IN IF existingTypename = Some(typename)
          THEN AfterRegister(loc)
          ELSE IF existingTypename # NULL
            THEN Throw(InconsistentTypeMessage(
                         id, TheValue(existingTypename), typename))
            ELSE IF ~ HasType(schema, typename)
              THEN Throw(UnknownTypeMessage(typename))
              ELSE /\ pc' = "reg_insert"
                   /\ loc' =
                        IF schema.types[typename].type = "UNION"
                          THEN [loc EXCEPT !.child.typename =
                                  CHOOSE clause \in
                                    schema.types[typename].clauses : TRUE]
                          ELSE loc
  /\ UNCHANGED <<db, disk, inTransaction, mirror, op, args, pre>>

\* The lookup of the existing typename and the checks that precede the
\* first insertion.
RegSelect ==
  /\ pc = "reg_select"
  /\ LET typename == loc.child.typename
         id == loc.child.id
         existingTypename == ExistingTypename(db, id)
     IN IF existingTypename = Some(typename)
          THEN AfterRegister(loc)
          ELSE IF existingTypename # NULL
            THEN Throw(InconsistentTypeMessage(
                         id, TheValue(existingTypename), typename))
            ELSE IF ~ HasType(schema, typename)
              THEN Throw(UnknownTypeMessage(typename))
              ELSE IF schema.types[typename].type = "UNION"
                THEN Throw(UnionTypeMessage(typename))
                ELSE /\ pc' = "reg_insert"
                     /\ UNCHANGED loc
  /\ UNCHANGED <<db, disk, inTransaction, mirror, op, args, pre>>

\* Variant of RegInsert whose INSERT is committed at once, before the
\* connection rows of the object are added.
RegInsertCommits ==
  /\ pc = "reg_insert"
  /\ LET r == InsertObject(db, loc.child.id, loc.child.typename)
         fields == ConnectionFieldnames(schema.types[loc.child.typename])
     IN IF ~ r.ok
          THEN /\ Throw("SqliteError")
               /\ UNCHANGED <<db, disk>>
          ELSE /\ db' = r.db
               /\ disk' = r.db
               /\ IF fields = <<>>
                    THEN AfterRegister(loc)
                    ELSE /\ pc' = "reg_fields"
                         /\ loc' = [loc EXCEPT !.fields = fields]
  /\ UNCHANGED <<inTransaction, mirror, op, args, pre>>

\* INSERT INTO objects
RegInsert ==
  /\ pc = "reg_insert"
  /\ LET r == InsertObject(db, loc.child.id, loc.child.typename)
         fields == ConnectionFieldnames(schema.types[loc.child.typename])
     IN IF ~ r.ok
          THEN /\ Throw("SqliteError")
               /\ UNCHANGED db
          ELSE /\ db' = r.db
               /\ IF fields = <<>>
                    THEN AfterRegister(loc)
                    ELSE /\ pc' = "reg_fields"
                         /\ loc' = [loc EXCEPT !.fields = fields]
  /\ UNCHANGED <<disk, inTransaction, mirror, op, args, pre>>

\* addConnection.run({id, fieldname}) for the next CONNECTION field.
RegFields ==
  /\ pc = "reg_fields"
  /\ LET r == InsertConnection(db, loc.child.id, Head(loc.fields))
         rest == Tail(loc.fields)
     IN IF ~ r.ok
          THEN /\ Throw("SqliteError")
               /\ UNCHANGED db
          ELSE /\ db' = r.db
               /\ IF rest = <<>>
                    THEN AfterRegister([loc EXCEPT !.fields = rest])
                    ELSE /\ pc' = pc
                         /\ loc' = [loc EXCEPT !.fields = rest]
  /\ UNCHANGED <<disk, inTransaction, mirror, op, args, pre>>

(***************************************************************************)
(* findOutdated(since)                                                     *)
(***************************************************************************)
\* updates.time_epoch_millis of the row LEFT OUTER JOINed on
\* last_update = updates.rowid: NULL when no row matches.
JoinedTime(d, last_update) ==
  {u.time_epoch_millis : u \in {x \in d.updates : Some(x.rowid) = last_update}}

\* SQL `a < b` used as a condition: NULL (not true) when a is NULL.
SqlLess(a, b) == a # NULL /\ TheValue(a) < b

\* SQL truth of a nullable 0/1 column.
SqlTrue(a) == a # NULL /\ TheValue(a) # 0

\* Variant: an update at the threshold counts as outdated.
OutdatedObjectsOrEqual(d, since) ==
  {[typename |-> o.typename, id |-> o.id] :
     o \in {x \in d.objects :
              \/ x.last_update = NULL
              \/ SqlLess(JoinedTime(d, x.last_update), since + 1)}}

OutdatedObjects(d, since) ==
  {[typename |-> o.typename, id |-> o.id] :
     o \in {x \in d.objects :
              \/ x.last_update = NULL
              \/ SqlLess(JoinedTime(d, x.last_update), since)}}

\* Variant: the update joined is the connection's own, not its owner's.
OutdatedConnectionsOwnUpdate(d, since) ==
  {[typename |-> j[1].typename, id |-> j[1].id, fieldname |-> j[2].fieldname,
    endCursor |-> j[2].end_cursor] :
     j \in {x \in d.objects \X d.connections :
              /\ x[1].id = x[2].object_id
              /\ \/ SqlTrue(x[2].has_next_page)
                 \/ x[2].last_update = NULL
                 \/ SqlLess(JoinedTime(d, x[2].last_update), since)}}

OutdatedConnections(d, since) ==
  {[typename |-> j[1].typename, id |-> j[1].id, fieldname |-> j[2].fieldname,
    endCursor |-> j[2].end_cursor] :
     j \in {x \in d.objects \X d.connections :
              /\ x[1].id = x[2].object_id
              /\ \/ SqlTrue(x[2].has_next_page)
                 \/ x[2].last_update = NULL
                 \/ SqlLess(JoinedTime(d, x[1].last_update), since)}}

\* Variant of findOutdated that runs its two SELECTs without
\* _inTransaction.
FindOutdatedNoTransaction(since) ==
  /\ mirror # 0
  /\ pc = "idle"
  /\ op' = "findOutdated"
  /\ args' = [since |-> since]
  /\ pre' = db
  /\ pc' = "find_objects"
  /\ loc' = NoLoc
  /\ UNCHANGED <<db, disk, inTransaction, mirror>>

FindOutdated(since) ==
  /\ mirror # 0
  /\ Enter("findOutdated", [since |-> since], NoLoc, "find_objects")

FindObjects ==
  /\ pc = "find_objects"
  /\ loc' = [loc EXCEPT !.result.objects = OutdatedObjects(db, args.since)]
  /\ pc' = "find_connections"
  /\ UNCHANGED <<db, disk, inTransaction, mirror, op, args, pre>>

FindConnections ==
  /\ pc = "find_connections"
  /\ loc' = [loc EXCEPT
               !.result.connections = OutdatedConnections(db, args.since)]
  /\ pc' = "tx_commit"
  /\ UNCHANGED <<db, disk, inTransaction, mirror, op, args, pre>>

(***************************************************************************)
(* _updateConnection(updateId, objectId, fieldname, queryResult) and       *)
(* _nontransactionallyUpdateConnection                                     *)
(***************************************************************************)
\* SELECT rowid FROM connections
\* WHERE object_id = :objectId AND fieldname = :fieldname  (pluck, get)
ConnectionId(d, objectId, fieldname) ==
  {c.rowid : c \in {x \in d.connections :
                      x.object_id = objectId /\ x.fieldname = fieldname}}

\* Variant: the largest index itself.
NextIndexNoIncrement(d, connectionId) ==
  LET idxs == {e.idx : e \in {x \in d.connection_entries :
                                x.connection_id = connectionId}}
  IN IF idxs = {} THEN 0 ELSE Max(idxs)

\* SELECT IFNULL(MAX(idx), 0) + 1 FROM connection_entries
\* WHERE connection_id = :connectionId
NextIndex(d, connectionId) ==
  LET idxs == {e.idx : e \in {x \in d.connection_entries :
                                x.connection_id = connectionId}}
  IN (IF idxs = {} THEN 0 ELSE Max(idxs)) + 1

\* Variant: the entry is inserted without registering the node.
NextNodeUnregistered(l) ==
  IF l.nodes = <<>>
    THEN /\ pc' = "tx_commit"
         /\ loc' = l
    ELSE /\ pc' = "upd_entry"
         /\ loc' = [l EXCEPT !.child = Head(l.nodes)]

\* The head of `for (const node of queryResult.nodes)`: the callback
\* returns when no node is left, and registers the next node otherwise.
NextNode(l) ==
  IF l.nodes = <<>>
    THEN /\ pc' = "tx_commit"
         /\ loc' = l
    ELSE /\ pc' = "reg_select"
         /\ loc' = [l EXCEPT !.child = Head(l.nodes)]

\* Variant: the ingestion runs outside any transaction.
UpdateConnectionNoTransaction(updateId, objectId, fieldname) ==
  /\ mirror # 0
  /\ updateId <= Cardinality(db.updates) + 1
  /\ pc = "idle"
  /\ op' = "updateConnection"
  /\ args' = [updateId |-> updateId, objectId |-> objectId,
              fieldname |-> fieldname]
  /\ pre' = db
  /\ pc' = "upd_select"
  /\ loc' = NoLoc
  /\ UNCHANGED <<db, disk, inTransaction, mirror>>

\* The call.  The response `queryResult` is an argument too: it is drawn
\* where the code first reads it (UpdUpdate).
UpdateConnection(updateId, objectId, fieldname) ==
  /\ mirror # 0
  /\ updateId <= Cardinality(db.updates) + 1
  /\ Enter("updateConnection",
           [updateId |-> updateId, objectId |-> objectId,
            fieldname |-> fieldname],
           NoLoc, "upd_select")

\* `No such connection: ${s(objectId)}.${s(fieldname)}`
NoSuchConnectionMessage(objectId, fieldname) ==
  "No such connection: " \o stringifyId(objectId) \o "." \o stringify(fieldname)

\* Variant: a connection row that is missing is created.
UpdSelectCreate ==
  /\ pc = "upd_select"
  /\ LET connectionId == ConnectionId(db, args.objectId, args.fieldname)
         r == InsertConnection(db, args.objectId, args.fieldname)
     IN IF connectionId # NULL
          THEN /\ pc' = "upd_update"
               /\ loc' = [loc EXCEPT !.connectionId = TheValue(connectionId)]
               /\ UNCHANGED db
          ELSE IF ~ r.ok
            THEN /\ Throw("SqliteError")
                 /\ UNCHANGED db
            ELSE /\ db' = r.db
                 /\ pc' = "upd_update"
                 /\ loc' = [loc EXCEPT !.connectionId =
                              TheValue(ConnectionId(r.db, args.objectId,
                                                    args.fieldname))]
  /\ UNCHANGED <<disk, inTransaction, mirror, op, args, pre>>

UpdSelect ==
  /\ pc = "upd_select"
  /\ LET connectionId == ConnectionId(db, args.objectId, args.fieldname)
     IN IF connectionId = NULL
          THEN Throw(NoSuchConnectionMessage(args.objectId, args.fieldname))
          ELSE /\ pc' = "upd_update"
               /\ loc' = [loc EXCEPT !.connectionId = TheValue(connectionId)]
  /\ UNCHANGED <<db, disk, inTransaction, mirror, op, args, pre>>

\* The UPDATE of the connection row, then the SELECT of the next index.
UpdUpdate(queryResult) ==
  /\ pc = "upd_update"
  /\ Cardinality(db.connection_entries) + Len(queryResult.nodes) <= MaxEntries
  /\ args' = [updateId |-> args.updateId, objectId |-> args.objectId,
              fieldname |-> args.fieldname, queryResult |-> queryResult]
  /\ LET r == UpdateConnectionRow(
                db, loc.connectionId, args.updateId,
                queryResult.totalCount,
                IF queryResult.pageInfo.hasNextPage THEN 1 ELSE 0,
                queryResult.pageInfo.endCursor)
     IN IF ~ r.ok
          THEN /\ Throw("SqliteError")
               /\ UNCHANGED db
          ELSE /\ db' = r.db
               /\ NextNode([loc EXCEPT
                              !.nextIndex = NextIndex(r.db, loc.connectionId),
                              !.nodes = queryResult.nodes])
  /\ UNCHANGED <<disk, inTransaction, mirror, op, pre>>

\* Variant of UpdEntry that adds no entry for a child that already has one
\* in this connection.
UpdEntryDeduplicating ==
  /\ pc = "upd_entry"
  /\ LET r == InsertEntry(db, loc.connectionId, loc.nextIndex, loc.child.id)
         present == \E e \in db.connection_entries :
                      /\ e.connection_id = loc.connectionId
                      /\ e.child_id = loc.child.id
     IN IF present
          THEN /\ UNCHANGED db
               /\ NextNode([loc EXCEPT !.nodes = Tail(@)])
          ELSE IF ~ r.ok
            THEN /\ Throw("SqliteError")
                 /\ UNCHANGED db
            ELSE /\ db' = r.db
                 /\ NextNode([loc EXCEPT !.nextIndex = @ + 1,
                                         !.nodes = Tail(@)])
  /\ UNCHANGED <<disk, inTransaction, mirror, op, args, pre>>

\* addEntry.run({connectionId, idx: nextIndex++, childId: childObject.id})
UpdEntry ==
  /\ pc = "upd_entry"
  /\ LET r == InsertEntry(db, loc.connectionId, loc.nextIndex, loc.child.id)
     IN IF ~ r.ok
          THEN /\ Throw("SqliteError")
               /\ UNCHANGED db
          ELSE /\ db' = r.db
               /\ NextNode([loc EXCEPT !.nextIndex = @ + 1,
                                       !.nodes = Tail(@)])
  /\ UNCHANGED <<disk, inTransaction, mirror, op, args, pre>>

(***************************************************************************)
(* _getEndCursor(objectId, fieldname): one SELECT outside any transaction. *)
(***************************************************************************)
\* Variant of getEndCursor that returns the end_cursor column whatever
\* `initialized` is.
getEndCursorColumn(d, objectId, fieldname) ==
  LET rows == {c \in d.connections :
                 c.object_id = objectId /\ c.fieldname = fieldname}
  IN IF rows = {}
       THEN [error |-> NoSuchConnectionMessage(objectId, fieldname),
             value |-> Undefined]
       ELSE [error |-> "", value |-> Given(TheValue(rows).end_cursor)]

\* SELECT last_update IS NOT NULL AS initialized, end_cursor AS endCursor
\* FROM connections WHERE object_id = :objectId AND fieldname = :fieldname
\* then: throw if no row; result.initialized ? result.endCursor : undefined
getEndCursor(d, objectId, fieldname) ==
  LET rows == {c \in d.connections :
                 c.object_id = objectId /\ c.fieldname = fieldname}
      result == TheValue(rows)
      initialized == result.last_update # NULL
  IN IF rows = {}
       THEN [error |-> NoSuchConnectionMessage(objectId, fieldname),
             value |-> Undefined]
       ELSE [error |-> "",
             value |-> IF initialized THEN Given(result.end_cursor)
                                      ELSE Undefined]

GetEndCursor(objectId, fieldname) ==
  /\ pc = "idle"
  /\ mirror # 0
  /\ LET r == getEndCursor(db, objectId, fieldname)
     IN loc' = [NoLoc EXCEPT !.error = r.error, !.result = r.value]
  /\ op' = "getEndCursor"
  /\ args' = [objectId |-> objectId, fieldname |-> fieldname]
  /\ pre' = db
  /\ pc' = "tx_return"
  /\ UNCHANGED <<db, disk, inTransaction, mirror>>

(***************************************************************************)
(* The mirror's operations, driven by one synchronous caller.              *)
(***************************************************************************)
Idle == pc = "idle"

Next ==
  \/ Idle /\ \E s \in 1..Len(Schemas) : Construct(s)
  \/ InitMeta
  \/ InitBlob
  \/ InitStructural
  \/ InitTypes
  \/ Idle /\ \E updateTimestamp \in Dates : CreateUpdate(updateTimestamp)
  \/ Idle /\ \E object \in Objects : RegisterObject(object)
  \/ RegSelect
  \/ RegInsert
  \/ RegFields
  \/ Idle /\ \E since \in Thresholds : FindOutdated(since)
  \/ FindObjects
  \/ FindConnections
  \/ Idle /\ \E updateId \in 1..(MaxUpdates + 1), objectId \in Ids,
                fieldname \in Fieldnames :
               UpdateConnection(updateId, objectId, fieldname)
  \/ UpdSelect
  \/ \E queryResult \in ConnectionFieldResults : UpdUpdate(queryResult)
  \/ UpdEntry
  \/ Idle /\ \E objectId \in Ids, fieldname \in Fieldnames :
               GetEndCursor(objectId, fieldname)
  \/ TxCommit
  \/ TxFinally
  \/ Return

Spec == Init /\ [][Next]_vars

(***************************************************************************)
(* Own-data bookkeeping.  No operation of the mirror writes                *)
(* objects.last_update; the test suite sets it with a statement of its own *)
(* on the same connection:                                                 *)
(*   UPDATE objects SET last_update = :update WHERE id = :id               *)
(***************************************************************************)
UpdateObjectRow(d, id, update) ==
  IF /\ \E o \in d.objects : o.id = id
     /\ update # NULL
     /\ ~ \E u \in d.updates : Some(u.rowid) = update
  THEN SqlError(d)
  ELSE SqlOk([d EXCEPT !.objects =
                {IF o.id = id THEN [o EXCEPT !.last_update = update] ELSE o :
                   o \in @}])

setObjectData(id, update) ==
  /\ pc = "idle"
  /\ mirror # 0
  /\ \E o \in db.objects : o.id = id
  /\ UpdateObjectRow(db, id, update).ok
  /\ db' = UpdateObjectRow(db, id, update).db
  /\ disk' = IF inTransaction THEN disk ELSE db'
  /\ UNCHANGED <<inTransaction, mirror, pc, op, args, loc, pre>>

\* The responses ingested next to own data: one page of one Issue.
OwnDataResults ==
  {r \in ConnectionFieldResults :
     Len(r.nodes) = 1 /\ r.nodes[1].typename = "Issue"}

\* The mirror's operations with the test's own-data statement, update
\* timestamps 1..MaxTime+1, and connections ingested from OwnDataResults
\* under existing updates.
NextOwnData ==
  \/ Idle /\ \E s \in 1..Len(Schemas) : Construct(s)
  \/ InitMeta
  \/ InitBlob
  \/ InitStructural
  \/ InitTypes
  \/ Idle /\ \E updateTimestamp \in 1..(MaxTime + 1) :
               CreateUpdate(updateTimestamp)
  \/ Idle /\ \E object \in Objects : RegisterObject(object)
  \/ RegSelect
  \/ RegInsert
  \/ RegFields
  \/ Idle /\ \E id \in Ids, update \in {NULL} \cup {Some(u) : u \in 1..MaxUpdates} :
               setObjectData(id, update)
  \/ Idle /\ \E since \in Thresholds : FindOutdated(since)
  \/ FindObjects
  \/ FindConnections
  \/ Idle /\ \E updateId \in 1..MaxUpdates, objectId \in Ids,
                fieldname \in {"issues", "comments"} :
               UpdateConnection(updateId, objectId, fieldname)
  \/ UpdSelect
  \/ \E queryResult \in OwnDataResults : UpdUpdate(queryResult)
  \/ UpdEntry
  \/ TxCommit
  \/ TxFinally
  \/ Return

SpecOwnData == Init /\ [][NextOwnData]_vars

(***************************************************************************)
(* Query construction: _queryShallow and _queryConnection.  An optional    *)
(* argument is the empty sequence when it is undefined and <<v>> when it   *)
(* is given the value v (null being NULL).  A selection is built by        *)
(* Queries.build: field(name, args, selections) and literal(value).        *)
(***************************************************************************)
MaxPageSize == 5    \* page sizes given to _queryConnection are 1..MaxPageSize
DefaultPageSize == 100

NoArguments == [x \in {} |-> x]
Literal(value) == [type |-> "LITERAL", value |-> value]
Field(name, arguments, selections) ==
  [type |-> "FIELD", name |-> name, args |-> arguments,
   selections |-> selections]

\* [b.field("__typename"), b.field("id")]
queryShallow ==
  <<Field("__typename", NoArguments, <<>>), Field("id", NoArguments, <<>>)>>

\* Variant: a null end cursor is left out like an undefined one.
queryConnectionOmitNull(fieldname, endCursor, connectionPageSize) ==
  LET pageSize == IF connectionPageSize = Undefined THEN DefaultPageSize
                  ELSE connectionPageSize[1]
      first == [first |-> Literal(pageSize)]
      connectionArguments ==
        IF endCursor # Undefined /\ endCursor # Given(NULL)
          THEN first @@ [after |-> Literal(endCursor[1])]
          ELSE first
  IN <<Field(fieldname, connectionArguments,
             <<Field("totalCount", NoArguments, <<>>),
               Field("pageInfo", NoArguments,
                     <<Field("endCursor", NoArguments, <<>>),
                       Field("hasNextPage", NoArguments, <<>>)>>),
               Field("nodes", NoArguments, queryShallow)>>)>>

\* _queryConnection(fieldname, endCursor, connectionPageSize = 100)
queryConnection(fieldname, endCursor, connectionPageSize) ==
  LET pageSize == IF connectionPageSize = Undefined THEN DefaultPageSize
                  ELSE connectionPageSize[1]
      first == [first |-> Literal(pageSize)]
      connectionArguments ==
        IF endCursor # Undefined
          THEN first @@ [after |-> Literal(endCursor[1])]
          ELSE first
  IN <<Field(fieldname, connectionArguments,
             <<Field("totalCount", NoArguments, <<>>),
               Field("pageInfo", NoArguments,
                     <<Field("endCursor", NoArguments, <<>>),
                       Field("hasNextPage", NoArguments, <<>>)>>),
               Field("nodes", NoArguments, queryShallow)>>)>>

\* The arguments of the calls of _queryConnection.
OptionalEndCursors == {Undefined} \cup {Given(c) : c \in EndCursors}
OptionalPageSizes == {Undefined} \cup {Given(n) : n \in 1..MaxPageSize}
QueryConnectionArgs ==
  [fieldname : Fieldnames, endCursor : OptionalEndCursors,
   connectionPageSize : OptionalPageSizes]

\* A call of _queryConnection on its own: the arguments are drawn at the
\* start, and the call computes the selection set and returns it.
InitQuery ==
  /\ db = EmptyDb
  /\ disk = EmptyDb
  /\ inTransaction = FALSE
  /\ mirror = 1
  /\ pc = "idle"
  /\ op = "queryConnection"
  /\ args \in QueryConnectionArgs
  /\ loc = NoLoc
  /\ pre = EmptyDb

QueryConnection ==
  /\ pc = "idle"
  /\ op = "queryConnection"
  /\ loc' = [loc EXCEPT
               !.result = queryConnection(args.fieldname, args.endCursor,
                                          args.connectionPageSize)]
  /\ pc' = "tx_return"
  /\ UNCHANGED <<db, disk, inTransaction, mirror, op, args, pre>>

NextQuery ==
  \/ QueryConnection
  \/ Return

SpecQuery == InitQuery /\ [][NextQuery]_vars

(***************************************************************************)
(* _inTransaction(db, fn) with callbacks of the caller.  As in the tests   *)
(* of _inTransaction, the database holds a table `tab (col PRIMARY KEY)`   *)
(* and a callback is a list of statements run on the connection, followed  *)
(* by `return db.prepare("SELECT TOTAL(col) ...").get()` or by the throw   *)
(* of a JavaScript error.  The caller also runs statements of its own      *)
(* outside _inTransaction, BEGIN among them, and calls the operations of   *)
(* the mirror while its own transaction is open.  `disk` is what a second  *)
(* connection to the same file sees.                                       *)
(***************************************************************************)
MaxSteps == 3
MaxValue == 2

TabValues == 1..MaxValue

Statements ==
  [kind : {"INSERT"}, value : TabValues]
    \cup [kind : {"BEGIN", "COMMIT", "ROLLBACK"}, value : {0}]

Callbacks ==
  [steps : UNION {[1..n -> Statements] : n \in 0..MaxSteps},
   ending : {"return", "throw"}]

\* db.prepare(statement).run() on a connection c = [db, disk,
\* inTransaction]: the connection afterwards, or the error of the statement.
StatementError(c, stmt) ==
  CASE stmt.kind = "INSERT" ->
         IF stmt.value \in c.db.tab
           THEN "SqliteError: SQLITE_CONSTRAINT_PRIMARYKEY" ELSE ""
    [] stmt.kind = "BEGIN" ->
         IF c.inTransaction
           THEN "SqliteError: cannot start a transaction within a transaction"
           ELSE ""
    [] stmt.kind = "COMMIT" ->
         IF c.inTransaction
           THEN "" ELSE "SqliteError: cannot commit - no transaction is active"
    [] stmt.kind = "ROLLBACK" ->
         IF c.inTransaction
           THEN ""
           ELSE "SqliteError: cannot rollback - no transaction is active"

RunStatement(c, stmt) ==
  CASE stmt.kind = "INSERT" ->
         LET d == [c.db EXCEPT !.tab = @ \cup {stmt.value}]
         IN [c EXCEPT !.db = d,
                      !.disk = IF c.inTransaction THEN @ ELSE d]
    [] stmt.kind = "BEGIN" -> [c EXCEPT !.inTransaction = TRUE]
    [] stmt.kind = "COMMIT" ->
         [c EXCEPT !.disk = c.db, !.inTransaction = FALSE]
    [] stmt.kind = "ROLLBACK" ->
         [c EXCEPT !.db = c.disk, !.inTransaction = FALSE]

Connection == [db |-> db, disk |-> disk, inTransaction |-> inTransaction]

\* SELECT TOTAL(col) AS n FROM tab
RECURSIVE Total(_)
Total(values) ==
  IF values = {} THEN 0
  ELSE LET v == CHOOSE x \in values : TRUE IN v + Total(values \ {v})

\* The caller runs a statement on the connection, outside _inTransaction; a
\* failing statement changes nothing.
Statement(stmt) ==
  /\ pc = "idle"
  /\ StatementError(Connection, stmt) = ""
  /\ LET c == RunStatement(Connection, stmt)
     IN /\ db' = c.db
        /\ disk' = c.disk
        /\ inTransaction' = c.inTransaction
  /\ UNCHANGED <<mirror, pc, op, args, loc, pre>>

InTransaction(fn) ==
  Enter("_inTransaction", [fn |-> fn], NoLoc, "fn")

\* One step of fn(): its next statement, or its return or throw.  loc.i
\* counts the statements that have run.
Fn ==
  /\ pc = "fn"
  /\ IF loc.i = Len(args.fn.steps)
       THEN /\ IF args.fn.ending = "return"
                 THEN /\ loc' = [loc EXCEPT !.result = Total(db.tab)]
                      /\ pc' = "tx_commit"
                 ELSE Throw("and then something goes wrong")
            /\ UNCHANGED <<db, disk, inTransaction>>
       ELSE LET stmt == args.fn.steps[loc.i + 1]
                error == StatementError(Connection, stmt)
                c == RunStatement(Connection, stmt)
            IN IF error # ""
                 THEN /\ Throw(error)
                      /\ UNCHANGED <<db, disk, inTransaction>>
                 ELSE /\ db' = c.db
                      /\ disk' = c.disk
                      /\ inTransaction' = c.inTransaction
                      /\ loc' = [loc EXCEPT !.i = @ + 1]
                      /\ pc' = pc
  /\ UNCHANGED <<mirror, op, args, pre>>

\* The database of the tests: CREATE TABLE tab (col PRIMARY KEY) has run.
InitTransaction ==
  /\ db = [EmptyDb EXCEPT !.tables = {"tab"}]
  /\ disk = db
  /\ inTransaction = FALSE
  /\ mirror = 0
  /\ pc = "idle"
  /\ op = "none"
  /\ args = NoArgs
  /\ loc = NoLoc
  /\ pre = EmptyDb

NextTransaction ==
  \/ Idle /\ \E stmt \in Statements : Statement(stmt)
  \/ Idle /\ \E fn \in Callbacks : InTransaction(fn)
  \/ Fn
  \/ Idle /\ \E s \in 1..Len(Schemas) : Construct(s)
  \/ InitMeta
  \/ InitBlob
  \/ InitStructural
  \/ InitTypes
  \/ Idle /\ inTransaction /\ \E object \in Objects : RegisterObject(object)
  \/ Idle /\ inTransaction /\ \E since \in Thresholds : FindOutdated(since)
  \/ Idle /\ inTransaction
          /\ \E updateId \in 1..MaxUpdates, objectId \in Ids,
                fieldname \in Fieldnames :
               UpdateConnection(updateId, objectId, fieldname)
  \/ TxCommit
  \/ TxFinally
  \/ Return

SpecTransaction == InitTransaction /\ [][NextTransaction]_vars

(***************************************************************************)
(* A failing COMMIT.  db.prepare("COMMIT").run() inside the try block can  *)
(* throw (the file is locked by another connection, the disk is full).     *)
(* Depending on the error the engine has then rolled the transaction back  *)
(* by itself or has left it open; in both cases control goes to the        *)
(* finally block with the error of the statement.                          *)
(***************************************************************************)
\* Variant of TxCommitFails where the COMMIT stands after the try block:
\* its error goes straight to the caller.
TxCommitFailsUnhandled(rolledBack) ==
  /\ pc = "tx_commit"
  /\ inTransaction
  /\ loc' = [loc EXCEPT !.error = "SqliteError: SQLITE_BUSY"]
  /\ pc' = "tx_return"
  /\ IF rolledBack
       THEN /\ db' = disk
            /\ inTransaction' = FALSE
       ELSE UNCHANGED <<db, inTransaction>>
  /\ UNCHANGED <<disk, mirror, op, args, pre>>

TxCommitFails(rolledBack) ==
  /\ pc = "tx_commit"
  /\ inTransaction
  /\ Throw("SqliteError: SQLITE_BUSY")
  /\ IF rolledBack
       THEN /\ db' = disk
            /\ inTransaction' = FALSE
       ELSE UNCHANGED <<db, inTransaction>>
  /\ UNCHANGED <<disk, mirror, op, args, pre>>

NextCommitFailure ==
  \/ NextTransaction
  \/ \E rolledBack \in BOOLEAN : TxCommitFails(rolledBack)

SpecCommitFailure == InitTransaction /\ [][NextCommitFailure]_vars

(***************************************************************************)
(* Teardown of the process.  The mirror has no cancellation; the process   *)
(* can be killed at any step of an operation.  The connection and the      *)
(* Mirror object are lost with it, the open transaction is never           *)
(* committed, and the next process that opens the file sees the committed  *)
(* database and has to construct its Mirror again.                         *)
(***************************************************************************)
Teardown ==
  /\ pc # "idle"
  /\ db' = disk
  /\ inTransaction' = FALSE
  /\ mirror' = 0
  /\ pc' = "idle"
  /\ op' = "none"
  /\ args' = NoArgs
  /\ loc' = NoLoc
  /\ pre' = EmptyDb
  /\ UNCHANGED disk

NextTeardown ==
  \/ Idle /\ \E s \in 1..Len(Schemas) : Construct(s)
  \/ InitMeta
  \/ InitBlob
  \/ InitStructural
  \/ InitTypes
  \/ Idle /\ \E updateTimestamp \in Dates : CreateUpdate(updateTimestamp)
  \/ Idle /\ \E object \in Objects : RegisterObject(object)
  \/ RegSelect
  \/ RegInsert
  \/ RegFields
  \/ Idle /\ \E updateId \in 1..MaxUpdates, objectId \in Ids,
                fieldname \in {"issues", "comments"} :
               UpdateConnection(updateId, objectId, fieldname)
  \/ UpdSelect
  \/ \E queryResult \in OwnDataResults : UpdUpdate(queryResult)
  \/ UpdEntry
  \/ TxCommit
  \/ TxFinally
  \/ Return
  \/ Teardown

SpecTeardown == Init /\ [][NextTeardown]_vars

(***************************************************************************)
(* A second connection to the same file.  Another process with a Mirror of *)
(* its own registers objects while this one runs findOutdated.  Each       *)
(* registerObject of the other connection is one committed transaction.    *)
(* It cannot commit while this connection holds a lock on the file, that   *)
(* is, from the first statement of a transaction of this connection to its *)
(* COMMIT or ROLLBACK; between BEGIN and the first statement no lock is    *)
(* held yet.  Outside a transaction this connection sees what the other    *)
(* one committed.                                                          *)
(***************************************************************************)
RECURSIVE AddConnections(_, _, _)
AddConnections(d, id, fields) ==
  IF fields = <<>> THEN d
  ELSE AddConnections(InsertConnection(d, id, Head(fields)).db, id,
                      Tail(fields))

\* The database after a registerObject(object) that inserted the object.
Registered(d, object) ==
  LET nodeType == Schemas[TheValue(d.meta).schema].types[object.typename]
  IN AddConnections(InsertObject(d, object.id, object.typename).db,
                    object.id, ConnectionFieldnames(nodeType))

LockHeld == inTransaction /\ pc # "find_objects"

OtherConnectionRegisters(object) ==
  /\ pc \in {"idle", "find_objects", "find_connections"}
  /\ ~ LockHeld
  /\ disk.meta # NULL
  /\ HasType(Schemas[TheValue(disk.meta).schema], object.typename)
  /\ Schemas[TheValue(disk.meta).schema].types[object.typename].type = "OBJECT"
  /\ ExistingTypename(disk, object.id) = NULL
  /\ disk' = Registered(disk, object)
  /\ db' = disk'
  /\ UNCHANGED <<inTransaction, mirror, pc, op, args, loc, pre>>

NextSnapshot ==
  \/ Idle /\ \E s \in 1..Len(Schemas) : Construct(s)
  \/ InitMeta
  \/ InitBlob
  \/ InitStructural
  \/ InitTypes
  \/ Idle /\ \E object \in Objects : RegisterObject(object)
  \/ RegSelect
  \/ RegInsert
  \/ RegFields
  \/ Idle /\ \E since \in Thresholds : FindOutdated(since)
  \/ FindObjects
  \/ FindConnections
  \/ \E object \in Objects : OtherConnectionRegisters(object)
  \/ TxCommit
  \/ TxFinally
  \/ Return

SpecSnapshot == Init /\ [][NextSnapshot]_vars

(***************************************************************************)
(* The fetch loop of a caller against a remote graph that does not change. *)
(* The remote holds one repository (the root) whose `issues` connection    *)
(* lists MaxEntries issues; the `comments` connection of every issue is    *)
(* empty.  A cursor is the number of nodes before it, written as a string; *)
(* a page that holds no node has the end cursor null.  The caller          *)
(* constructs the mirror, registers the root, creates updates, and then    *)
(* loops: findOutdated(CrawlSince); if a connection is reported, it        *)
(* fetches one page of it from the reported cursor and ingests the page    *)
(* with updateConnection under an existing update (all of which have a     *)
(* timestamp of at least CrawlSince).                                      *)
(***************************************************************************)
CrawlSince == MaxTime
Root == [typename |-> "Repository", id |-> 1]

RemoteList(objectId, fieldname) ==
  IF objectId = Root.id /\ fieldname = "issues"
    THEN [k \in 1..MaxEntries |-> [typename |-> "Issue", id |-> k + 1]]
    ELSE <<>>

Cursor(k) == Some(ToString(k))
Position(endCursor) ==
  IF endCursor = NULL THEN 0
  ELSE CHOOSE k \in 0..MaxEntries : Cursor(k) = endCursor

\* The response to fieldname(first: n, after: endCursor) on the node
\* objectId.
RemotePage(objectId, fieldname, endCursor, n) ==
  LET list == RemoteList(objectId, fieldname)
      start == Position(endCursor)
      end == IF start + n < Len(list) THEN start + n ELSE Len(list)
      nodes == SubSeq(list, start + 1, end)
  IN [totalCount |-> Len(list),
      pageInfo |-> [hasNextPage |-> end < Len(list),
                    endCursor |-> IF nodes = <<>> THEN NULL ELSE Cursor(end)],
      nodes |-> nodes]

RootRegistered(d) == \E o \in d.objects : o.id = Root.id

\* The caller holds the result of findOutdated and calls updateConnection
\* for one of the connections reported.
CrawlIngest(connection, updateId) ==
  /\ pc = "tx_return"
  /\ op = "findOutdated"
  /\ loc.error = ""
  /\ ~ inTransaction
  /\ connection \in loc.result.connections
  /\ \E u \in db.updates : u.rowid = updateId
  /\ op' = "updateConnection"
  /\ args' = [updateId |-> updateId, objectId |-> connection.id,
              fieldname |-> connection.fieldname,
              endCursor |-> connection.endCursor]
  /\ pre' = db
  /\ pc' = "upd_select"
  /\ loc' = NoLoc
  /\ inTransaction' = TRUE
  /\ UNCHANGED <<db, disk, mirror>>

\* The page fetched from the reported cursor is the queryResult.
CrawlFetch(n) ==
  /\ pc = "upd_update"
  /\ UpdUpdate(RemotePage(args.objectId, args.fieldname, args.endCursor, n))

\* The caller goes on; with a reported connection in hand it ingests.
CrawlReturn ==
  /\ ~ (op = "findOutdated" /\ loc.error = ""
        /\ loc.result.connections # {})
  /\ Return

NextCrawl ==
  \/ Idle /\ mirror = 0 /\ Construct(1)
  \/ InitMeta
  \/ InitBlob
  \/ InitStructural
  \/ InitTypes
  \/ Idle /\ ~ RootRegistered(db) /\ RegisterObject(Root)
  \/ RegSelect
  \/ RegInsert
  \/ RegFields
  \/ Idle /\ \E updateTimestamp \in CrawlSince..MaxTime :
               CreateUpdate(updateTimestamp)
  \/ Idle /\ RootRegistered(db) /\ db.updates # {} /\ FindOutdated(CrawlSince)
  \/ FindObjects
  \/ FindConnections
  \/ \E connection \in OutdatedConnections(db, CrawlSince),
        updateId \in 1..MaxUpdates : CrawlIngest(connection, updateId)
  \/ UpdSelect
  \/ \E n \in 1..MaxEntries : CrawlFetch(n)
  \/ UpdEntry
  \/ TxCommit
  \/ CrawlReturn

SpecCrawl == Init /\ [][NextCrawl]_vars /\ WF_vars(NextCrawl)

(***************************************************************************)
(* Properties.                                                             *)
(***************************************************************************)
\* The operation `name` has run to its end without an error and is about to
\* return to its caller.
Returned(name) == pc = "tx_return" /\ op = name /\ loc.error = ""

\* The operation `name` is about to throw to its caller.
Threw(name) == pc = "tx_return" /\ op = name /\ loc.error # ""

\* The timestamp of the update with the given rowid is less than `since`.
UpdatedBefore(d, updateId, since) ==
  \E u \in d.updates : u.rowid = updateId /\ u.time_epoch_millis < since

\* C1: findOutdated(since).connections holds exactly the connections whose
\* own last_update is NULL, or refers to an update with a timestamp
\* strictly less than `since`, or whose has_next_page is true; each row
\* carries the owner's typename and the connection's end_cursor.
C1_StaleConnections(d, since) ==
  {[typename |-> o.typename, id |-> c.object_id, fieldname |-> c.fieldname,
    endCursor |-> c.end_cursor] :
     <<o, c>> \in {x \in d.objects \X d.connections :
                     /\ x[1].id = x[2].object_id
                     /\ \/ x[2].last_update = NULL
                        \/ \E u \in x[2].last_update :
                             UpdatedBefore(d, u, since)
                        \/ x[2].has_next_page = Some(1)}}

C1_FindOutdatedConnections ==
  Returned("findOutdated") =>
    loc.result.connections = C1_StaleConnections(db, args.since)

\* C2: findOutdated(since).objects holds exactly the registered objects
\* whose last_update is NULL or refers to an update with a timestamp
\* strictly less than `since`, each as {typename, id}.
C2_StaleObjects(d, since) ==
  {[typename |-> o.typename, id |-> o.id] :
     o \in {x \in d.objects :
              \/ x.last_update = NULL
              \/ \E u \in x.last_update : UpdatedBefore(d, u, since)}}

C2_FindOutdatedObjects ==
  Returned("findOutdated") =>
    loc.result.objects = C2_StaleObjects(db, args.since)

\* C2 witness: findOutdated returns while one object was updated strictly
\* before `since` and another exactly at `since`.
C2_Witness ==
  /\ Returned("findOutdated")
  /\ \E o1, o2 \in db.objects, u1, u2 \in db.updates :
       /\ o1.last_update = Some(u1.rowid)
       /\ o2.last_update = Some(u2.rowid)
       /\ u1.time_epoch_millis < args.since
       /\ u2.time_epoch_millis = args.since


\* The ids of the registered objects.
ObjectIds(d) == {o.id : o \in d.objects}

\* The schema recorded in the database's meta row.
SchemaOf(d) == Schemas[TheValue(d.meta).schema]

\* C3: an operation that throws leaves the database, as seen through the
\* connection and as committed, exactly as it was when the operation
\* started.
C3_ThrowLeavesDatabaseUnchanged ==
  (pc = "tx_return" /\ loc.error # "") => (db = pre /\ disk = pre)

\* C3 witness: updateConnection throws on its second node after it has
\* registered a new object for its first node and inserted an entry.
C3_Witness ==
  /\ Threw("updateConnection")
  /\ Len(loc.nodes) = 1
  /\ Len(args.queryResult.nodes) = 2
  /\ args.queryResult.nodes[1].typename = "Issue"
  /\ args.queryResult.nodes[1].id \notin ObjectIds(db)

\* C4: each id has at most one object row; a committed object keeps its
\* typename for ever; an id that becomes committed has the typename of the
\* registration that added it; and a successful registerObject leaves the
\* id with the typename it was given.
C4_UniqueId(d) ==
  \A o1, o2 \in d.objects : o1.id = o2.id => o1 = o2

C4_FirstRegistration ==
  \A o \in disk'.objects :
    o.id \notin ObjectIds(disk) =>
      \/ op = "registerObject" /\ o.id = args.id /\ o.typename = args.typename
      \/ /\ op = "updateConnection"
         /\ \E k \in DOMAIN args.queryResult.nodes :
              /\ args.queryResult.nodes[k].id = o.id
              /\ args.queryResult.nodes[k].typename = o.typename

C4_TypenameKept ==
  \A o \in disk.objects :
    \E o2 \in disk'.objects : o2.id = o.id /\ o2.typename = o.typename

C4_TypenameWriteOnce ==
  /\ [](/\ C4_UniqueId(db)
        /\ C4_UniqueId(disk)
        /\ Returned("registerObject") =>
             \E o \in disk.objects :
               o.id = args.id /\ o.typename = args.typename)
  /\ [][C4_FirstRegistration /\ C4_TypenameKept]_vars

\* C4 witness: registerObject throws for an id registered with another
\* typename, and the stored typename is still the first one.
C4_Witness ==
  /\ Threw("registerObject")
  /\ loc.error = InconsistentTypeMessage(args.id, "Issue", args.typename)
  /\ \E o \in disk.objects : o.id = args.id /\ o.typename # args.typename

\* C5: every registered object of type T has exactly one connection row for
\* each CONNECTION field of T and none for any other fieldname, and a
\* connection row is created with all its other columns NULL.
C5_RowsOf(d, id, fieldname) ==
  {c \in d.connections : c.object_id = id /\ c.fieldname = fieldname}

C5_ConnectionRows(d) ==
  \A o \in d.objects :
    /\ d.meta # NULL
    /\ HasType(SchemaOf(d), o.typename)
    /\ LET T == SchemaOf(d).types[o.typename]
       IN /\ T.type = "OBJECT"
          /\ \A fieldname \in {c.fieldname : c \in d.connections}
                                \cup DOMAIN T.fields :
               Cardinality(C5_RowsOf(d, o.id, fieldname)) =
                 IF /\ fieldname \in DOMAIN T.fields
                    /\ T.fields[fieldname].type = "CONNECTION"
                 THEN 1 ELSE 0

C5_FreshRow(c) ==
  /\ c.last_update = NULL
  /\ c.total_count = NULL
  /\ c.has_next_page = NULL
  /\ c.end_cursor = NULL

C5_ConnectionsMatchSchema ==
  /\ [](/\ C5_ConnectionRows(disk)
        /\ ~ inTransaction => C5_ConnectionRows(db))
  /\ [][\A c \in db'.connections :
          c.rowid \notin {x.rowid : x \in db.connections} => C5_FreshRow(c)]_vars

\* C5 witness: updateConnection has committed a child that it registered
\* itself, together with the child's connection row.
C5_Witness ==
  /\ Returned("updateConnection")
  /\ \E k \in DOMAIN args.queryResult.nodes :
       /\ args.queryResult.nodes[k].id \notin ObjectIds(pre)
       /\ C5_RowsOf(disk, args.queryResult.nodes[k].id, "comments") # {}


\* C6: in every committed state, connections.object_id and
\* connection_entries.child_id are ids of objects,
\* connection_entries.connection_id is the rowid of a connection, and a
\* non-NULL connections.last_update is the rowid of an update.
C6_ForeignKeys(d) ==
  /\ \A c \in d.connections :
       /\ c.object_id \in ObjectIds(d)
       /\ \A u \in c.last_update : u \in {x.rowid : x \in d.updates}
  /\ \A e \in d.connection_entries :
       /\ e.child_id \in ObjectIds(d)
       /\ e.connection_id \in {c.rowid : c \in d.connections}

C6_ForeignKeyClosure == C6_ForeignKeys(disk)

\* C6 witness: a committed connection that has been updated and holds an
\* entry for a child other than its owner.
C6_Witness ==
  \E c \in disk.connections, e \in disk.connection_entries :
    /\ e.connection_id = c.rowid
    /\ c.last_update # NULL
    /\ e.child_id # c.object_id

\* C7: the idx values of a connection's entries are pairwise distinct, the
\* smallest is 1, and an entry that is inserted has an idx strictly larger
\* than every entry already in the same connection.
C7_EntriesOf(d, connectionId) ==
  {e \in d.connection_entries : e.connection_id = connectionId}

C7_Indices(d) ==
  \A c \in d.connections :
    LET entries == C7_EntriesOf(d, c.rowid)
    IN /\ \A e1, e2 \in entries : e1.idx = e2.idx => e1 = e2
       /\ entries # {} => \E e \in entries : e.idx = 1
       /\ \A e \in entries : e.idx >= 1

C7_InsertedLater ==
  \A e \in db'.connection_entries \ db.connection_entries :
    \A e0 \in C7_EntriesOf(db, e.connection_id) : e0.idx < e.idx

C7_IndicesIncrease ==
  /\ [](C7_Indices(db) /\ C7_Indices(disk))
  /\ [][C7_InsertedLater]_vars

\* C7 witness: updateConnection returns after adding one entry, at index 2,
\* to a connection that already had an entry.
C7_Witness ==
  /\ Returned("updateConnection")
  /\ Len(args.queryResult.nodes) = 1
  /\ loc.nextIndex = 3
  /\ C7_EntriesOf(pre, loc.connectionId) # {}

\* C8: a committed connection entry stays committed, with the same
\* connection, idx and child_id.
C8_EntriesAppendOnly ==
  [][disk.connection_entries \subseteq disk'.connection_entries]_vars

\* C8 witness: updateConnection has committed new entries next to the
\* entries committed before it.
C8_Witness ==
  /\ Returned("updateConnection")
  /\ pre.connection_entries # {}
  /\ pre.connection_entries \subseteq disk.connection_entries
  /\ pre.connection_entries # disk.connection_entries

\* C9: when updateConnection succeeds, the row of (objectId, fieldname) has
\* last_update = updateId, total_count = totalCount, has_next_page =
\* pageInfo.hasNextPage and end_cursor = pageInfo.endCursor.
C9_RowAsGiven(d) ==
  \E c \in d.connections :
    /\ c.object_id = args.objectId
    /\ c.fieldname = args.fieldname
    /\ c.last_update = Some(args.updateId)
    /\ c.total_count = Some(args.queryResult.totalCount)
    /\ c.has_next_page =
         Some(IF args.queryResult.pageInfo.hasNextPage THEN 1 ELSE 0)
    /\ c.end_cursor = args.queryResult.pageInfo.endCursor

C9_UpdateConnectionSetsRow ==
  Returned("updateConnection") => (C9_RowAsGiven(db) /\ C9_RowAsGiven(disk))

\* C9 witness: a successful updateConnection with a null cursor on a row
\* that held another update, another total count and a cursor.
C9_Witness ==
  /\ Returned("updateConnection")
  /\ args.queryResult.pageInfo.endCursor = NULL
  /\ \E c \in pre.connections :
       /\ c.object_id = args.objectId
       /\ c.fieldname = args.fieldname
       /\ c.last_update \notin {NULL, Some(args.updateId)}
       /\ c.total_count # Some(args.queryResult.totalCount)
       /\ c.end_cursor # NULL

\* C10: every node of the response is registered as registerObject would
\* register it, before the entry that refers to it is inserted: no entry
\* refers to an unregistered id, even inside the transaction.
C10_ChildRegistered ==
  pc = "upd_entry" =>
    \E o \in db.objects :
      /\ o.id = loc.child.id
      /\ o.typename = loc.child.typename
      /\ schema.types[o.typename].type = "OBJECT"
      /\ \A fieldname \in Fieldnames :
           Cardinality(C5_RowsOf(db, o.id, fieldname)) =
             IF /\ fieldname \in DOMAIN schema.types[o.typename].fields
                /\ schema.types[o.typename].fields[fieldname].type
                     = "CONNECTION"
             THEN 1 ELSE 0
      /\ o.id \notin ObjectIds(pre) =>
           /\ o.last_update = NULL
           /\ \A c \in db.connections : c.object_id = o.id => C5_FreshRow(c)

C10_KnownChildUnchanged ==
  (/\ op = "updateConnection"
   /\ pc = "reg_select"
   /\ pc' = "upd_entry") => db' = db

C10_ChildrenRegisteredFirst ==
  /\ [](/\ C10_ChildRegistered
        /\ \A e \in db.connection_entries : e.child_id \in ObjectIds(db))
  /\ [][C10_KnownChildUnchanged]_vars

\* C10 witness: the entry of a node is about to be inserted, the node's id
\* was not registered before the call, and its object row is there.
C10_Witness ==
  /\ pc = "upd_entry"
  /\ loc.child.id \notin ObjectIds(pre)
  /\ loc.child.id \in ObjectIds(db)
  /\ loc.child.id \notin ObjectIds(disk)


\* C11: once a connection has been ingested with hasNextPage false,
\* findOutdated(t) with t later than the timestamp of the connection's
\* update does not report the connection, and reports in `objects` every
\* child that the ingestion has registered.
C11_FetchedConnections(d, since) ==
  {c \in d.connections :
     /\ c.has_next_page = Some(0)
     /\ \E u \in c.last_update : UpdatedBefore(d, u, since)}

C12_QueryOfReported(r) ==
  queryConnection(r.fieldname, Given(r.endCursor), Undefined)[1]

C12_ReportedCursorKeepsFetchState ==
  Returned("findOutdated") =>
    \A r \in loc.result.connections :
      \A c \in C5_RowsOf(db, r.id, r.fieldname) :
        IF c.last_update = NULL
          THEN "after" \notin DOMAIN C12_QueryOfReported(r).args
          ELSE /\ "after" \in DOMAIN C12_QueryOfReported(r).args
               /\ C12_QueryOfReported(r).args.after = Literal(c.end_cursor)

\* C13: the query of _queryConnection has the argument `first` with the
\* page size given, or 100 when none is given, and has the argument
\* `after` exactly when endCursor is not undefined, with the cursor given
\* (null for null) as its value.
C13_QueryArguments ==
  (pc = "tx_return" /\ op = "queryConnection") =>
    LET q == loc.result[1]
    IN /\ Len(loc.result) = 1
       /\ q.name = args.fieldname
       /\ DOMAIN q.args \subseteq {"first", "after"}
       /\ q.args.first =
            Literal(IF args.connectionPageSize = Undefined THEN 100
                    ELSE args.connectionPageSize[1])
       /\ ("after" \in DOMAIN q.args) <=> (args.endCursor # Undefined)
       /\ \A c \in EndCursors :
            args.endCursor = Given(c) => q.args.after = Literal(c)

\* C13 witness: a query built for a null end cursor and no page size.
C13_Witness ==
  /\ pc = "tx_return"
  /\ op = "queryConnection"
  /\ args.endCursor = Given(NULL)
  /\ args.connectionPageSize = Undefined
  /\ loc.result[1].args.after = Literal(NULL)


\* The string `str` begins with `prefix`, and holds `part`.
StartsWith(str, prefix) ==
  Len(prefix) <= Len(str) /\ SubSeq(str, 1, Len(prefix)) = prefix

Contains(str, part) ==
  \E i \in 1..(Len(str) - Len(part) + 1) :
    SubSeq(str, i, i + Len(part) - 1) = part

\* C14: registerObject for an id registered with the same typename raises
\* no error and changes nothing: the object row with its last_update, the
\* connection rows with their columns and the entries are as before.
C14_SameTypename ==
  /\ op = "registerObject"
  /\ \E o \in pre.objects : o.id = args.id /\ o.typename = args.typename

C14_ReregisterChangesNothing ==
  /\ []((pc = "tx_return" /\ C14_SameTypename) =>
          (loc.error = "" /\ db = pre /\ disk = pre))
  /\ [][C14_SameTypename => (db' = db /\ disk' = disk)]_vars

\* C14 witness: registerObject returns for an object that has own data
\* loaded and a fetched connection with an entry.
C14_Witness ==
  /\ Returned("registerObject")
  /\ \E o \in pre.objects, c \in pre.connections :
       /\ o.id = args.id
       /\ o.last_update # NULL
       /\ c.object_id = o.id
       /\ c.last_update # NULL
       /\ C7_EntriesOf(pre, c.rowid) # {}

\* C15: registerObject for an id registered with another typename throws
\* the "Inconsistent type" error, whose message names the stored typename
\* as expected and the given one, and leaves the database unchanged.
C15_OtherTypename ==
  /\ op = "registerObject"
  /\ \E o \in pre.objects : o.id = args.id /\ o.typename # args.typename

C15_InconsistentTypeRejected ==
  (pc = "tx_return" /\ C15_OtherTypename) =>
    /\ StartsWith(loc.error, "Inconsistent type for ID ")
    /\ \A o \in pre.objects :
         o.id = args.id =>
           Contains(loc.error, "expected \"" \o o.typename \o "\"")
    /\ Contains(loc.error, "got \"" \o args.typename \o "\"")
    /\ db = pre
    /\ disk = pre

\* C15 witness: the error is thrown for a typename that the schema lacks,
\* given for the id of a registered Issue.
C15_Witness ==
  /\ Threw("registerObject")
  /\ C15_OtherTypename
  /\ args.typename = "Wat"
  /\ \E c \in pre.connections : c.object_id = args.id

\* C16: registerObject with an unregistered id and a typename that is not
\* a key of the schema throws the "Unknown type" error and adds no row to
\* objects or connections.
C16_UnknownTypeRejected ==
  (/\ pc = "tx_return"
   /\ op = "registerObject"
   /\ args.id \notin ObjectIds(pre)
   /\ args.typename \notin DOMAIN schema.types) =>
    /\ loc.error = "Unknown type: \"" \o args.typename \o "\""
    /\ db.objects = pre.objects /\ db.connections = pre.connections
    /\ disk.objects = pre.objects /\ disk.connections = pre.connections

\* C16 witness: the error is thrown on a database that holds other objects.
C16_Witness ==
  /\ Threw("registerObject")
  /\ args.typename = "Wat"
  /\ args.id \notin ObjectIds(pre)
  /\ pre.objects # {}

\* C17: registerObject with an unregistered id and the typename of a UNION
\* type throws the "Cannot add object of union type" error and adds no
\* row; every object row has the typename of an OBJECT type.
C17_OnlyObjectTypes(d) ==
  \A o \in d.objects :
    /\ d.meta # NULL
    /\ HasType(SchemaOf(d), o.typename)
    /\ SchemaOf(d).types[o.typename].type = "OBJECT"

C17_UnionTypeRejected ==
  /\ C17_OnlyObjectTypes(db)
  /\ C17_OnlyObjectTypes(disk)
  /\ (/\ pc = "tx_return"
      /\ op = "registerObject"
      /\ args.id \notin ObjectIds(pre)
      /\ HasType(schema, args.typename)
      /\ schema.types[args.typename].type = "UNION") =>
       /\ StartsWith(loc.error, "Cannot add object of union type \""
                                  \o args.typename \o "\"")
       /\ db.objects = pre.objects /\ db.connections = pre.connections
       /\ disk.objects = pre.objects /\ disk.connections = pre.connections

\* C17 witness: the error is thrown for the union Actor.
C17_Witness ==
  /\ Threw("registerObject")
  /\ args.typename = "Actor"
  /\ args.id \notin ObjectIds(pre)
  /\ Contains(loc.error, "must specify the clause of the union")


\* C18: updateConnection for a pair (objectId, fieldname) without a
\* connection row throws the "No such connection" error before it changes
\* anything: the database is the same at every step of the call.
C18_NoConnection ==
  /\ op = "updateConnection"
  /\ C5_RowsOf(pre, args.objectId, args.fieldname) = {}

C18_UnknownConnectionRejected ==
  /\ []((pc = "tx_return" /\ C18_NoConnection) =>
          /\ StartsWith(loc.error, "No such connection: ")
          /\ Contains(loc.error, "\"" \o args.fieldname \o "\"")
          /\ db = pre
          /\ disk = pre)
  /\ [][C18_NoConnection => (db' = db /\ disk' = disk)]_vars

\* C18 witness: the error is thrown for a registered object and a
\* fieldname that is not one of its connections.
C18_Witness ==
  /\ Threw("updateConnection")
  /\ C18_NoConnection
  /\ args.fieldname = "url"
  /\ \E o \in pre.objects : o.id = args.objectId /\ o.typename = "Repository"

\* C19: when the registration of a node of the response fails,
\* updateConnection fails and nothing of the ingestion remains: the
\* connection row, the entries and the registered objects are as before
\* the call.  A call that succeeds has met no such node.
C19_NodeRejected ==
  /\ pc = "tx_return"
  /\ op = "updateConnection"
  /\ loc.nodes # <<>>

C19_NodeAcceptable(k) ==
  LET nodes == args.queryResult.nodes
  IN /\ HasType(schema, nodes[k].typename)
     /\ schema.types[nodes[k].typename].type = "OBJECT"
     /\ \A o \in pre.objects :
          o.id = nodes[k].id => o.typename = nodes[k].typename
     /\ \A j \in 1..(k - 1) :
          nodes[j].id = nodes[k].id => nodes[j].typename = nodes[k].typename

C19_FailedIngestionUndone ==
  /\ C19_NodeRejected =>
       /\ loc.error # ""
       /\ ~ C19_NodeAcceptable(Len(args.queryResult.nodes) - Len(loc.nodes) + 1)
       /\ \A d \in {db, disk} :
            /\ C5_RowsOf(d, args.objectId, args.fieldname)
                 = C5_RowsOf(pre, args.objectId, args.fieldname)
            /\ d.connection_entries = pre.connection_entries
            /\ d.objects = pre.objects
            /\ d.connections = pre.connections
  /\ Returned("updateConnection") =>
       \A k \in DOMAIN args.queryResult.nodes : C19_NodeAcceptable(k)

\* C19 witness: the second node has the id of an object registered with
\* another typename, after the first node was registered anew.
C19_Witness ==
  /\ C19_NodeRejected
  /\ Len(loc.nodes) = 1
  /\ Len(args.queryResult.nodes) = 2
  /\ StartsWith(loc.error, "Inconsistent type for ID ")
  /\ args.queryResult.nodes[1].id \notin ObjectIds(pre)
  /\ \E c \in pre.connections :
       /\ c.object_id = args.objectId
       /\ c.fieldname = args.fieldname
       /\ c.last_update # NULL
       /\ c.last_update # Some(args.updateId)

\* C20: createUpdate adds exactly one row to `updates`, with the timestamp
\* given and a rowid that no row had, returns that rowid, and leaves the
\* other rows as they are; no row of `updates` ever goes away, so the id
\* differs from every id returned before.
C20_NewUpdate ==
  [rowid |-> loc.result, time_epoch_millis |-> args.updateTimestamp]

C20_CreateUpdateAddsOneRow ==
  /\ [](Returned("createUpdate") =>
          /\ loc.result \notin {u.rowid : u \in pre.updates}
          /\ db.updates = pre.updates \cup {C20_NewUpdate}
          /\ disk.updates = db.updates
          /\ Cardinality(db.updates) = Cardinality(pre.updates) + 1)
  /\ [][db.updates \subseteq db'.updates]_vars

\* C20 witness: createUpdate returns for a timestamp that an earlier
\* update has too.
C20_Witness ==
  /\ Returned("createUpdate")
  /\ \E u \in pre.updates : u.time_epoch_millis = args.updateTimestamp


\* C21: constructing a Mirror on a store whose meta row already holds the
\* blob of the given schema and version raises no error and changes
\* nothing: at no step of the call does the committed database differ from
\* the database before the call, and when the constructor returns the
\* connection sees that same database (meta row, tables, objects, updates,
\* connections and entries) with no transaction left open.
C21_SameSchemaIsNoOp ==
  (op = "construct" /\ pc # "idle" /\ pre.meta = Some(Blob(args.schema)))
    => /\ loc.error = ""
       /\ disk = pre
       /\ pc = "tx_return" => (db = pre /\ ~ inTransaction)

C21_Witness ==
  /\ Returned("construct")
  /\ pre.meta = Some(Blob(args.schema))
  /\ pre.objects # {}
  /\ pre.updates # {}
  /\ pre.connection_entries # {}


\* C22: constructing a Mirror on a store whose meta row holds a blob other
\* than the blob of the given schema and version throws "Database already
\* populated with incompatible schema or version" and changes nothing: the
\* committed database stays the database before the call at every step,
\* and at the throw the connection sees that database, original meta row
\* included, with no transaction open, so that a construction with the
\* original schema then finds its own blob.
C22_DifferentSchemaRejected ==
  (/\ op = "construct"
   /\ pc # "idle"
   /\ pre.meta # NULL
   /\ pre.meta # Some(Blob(args.schema)))
    => /\ disk = pre
       /\ pc = "tx_return" =>
            /\ loc.error = "Database already populated with incompatible schema or version"
            /\ db = pre
            /\ db.meta = pre.meta
            /\ ~ inTransaction

C22_Witness ==
  /\ Threw("construct")
  /\ pre.meta = Some(Blob(1))
  /\ args.schema = 2
  /\ pre.objects # {}
  /\ pre.connection_entries # {}


\* The name matches ^[A-Za-z0-9_]+$ : it has at least one character and
\* none outside the safe characters.
C23_MatchesPattern(name) ==
  /\ Len(name) >= 1
  /\ \A i \in 1..Len(name) : SubSeq(name, i, i) \in SafeChars

\* Some OBJECT type name or some PRIMITIVE field name of the schema does
\* not match the pattern.
C23_HasUnsafeName(s) ==
  \E k \in 1..Len(s.keys) :
    LET nodeType == s.types[s.keys[k]]
    IN /\ nodeType.type = "OBJECT"
       /\ \/ ~ C23_MatchesPattern(s.keys[k])
          \/ \E f \in 1..Len(nodeType.keys) :
               /\ nodeType.fields[nodeType.keys[f]].type = "PRIMITIVE"
               /\ ~ C23_MatchesPattern(nodeType.keys[f])

\* C23: a construction on an empty store throws "invalid object type
\* name: ..." or "invalid field name: ..." exactly when some OBJECT type
\* name or PRIMITIVE field name of the schema does not match
\* ^[A-Za-z0-9_]+$ (the empty name included); union names and the names of
\* ID, NODE and CONNECTION fields do not make it fail.
C23_UnsafeNamesRejected ==
  (pc = "tx_return" /\ op = "construct" /\ pre = EmptyDb)
    => (C23_HasUnsafeName(Schemas[args.schema])
          <=> \/ StartsWith(loc.error, "invalid object type name: ")
              \/ StartsWith(loc.error, "invalid field name: "))


\* The constructor threw one of the two identifier errors.
C24_UnsafeIdentifier ==
  /\ Threw("construct")
  /\ \/ StartsWith(loc.error, "invalid object type name: ")
     \/ StartsWith(loc.error, "invalid field name: ")

\* C24: a construction on an empty store that throws "invalid object type
\* name" or "invalid field name" leaves the store empty, for the connection
\* and on disk: no meta row, no structural table, no data table of an
\* earlier type, no open transaction.  A construction on an empty store
\* that does not throw one of these errors (the schema is valid) returns
\* without error with that schema's blob in the committed meta row.
C24_FailedConstructionPersistsNothing ==
  (pc = "tx_return" /\ op = "construct" /\ pre = EmptyDb)
    => /\ ~ inTransaction
       /\ disk = db
       /\ IF C24_UnsafeIdentifier
            THEN db = EmptyDb
            ELSE /\ loc.error = ""
                 /\ db.meta = Some(Blob(args.schema))
                 /\ "meta" \in db.tables

\* The schema {A: {id}, C: {id, "Non-Word-Characters"}} was rejected on an
\* empty store after the table of A had been created.
C24_Witness ==
  /\ C24_UnsafeIdentifier
  /\ pre = EmptyDb
  /\ args.schema = 3
  /\ loc.i = 2
  /\ loc.error = "invalid field name: Non-Word-Characters"


\* The operations that run their body through _inTransaction.
C25_Operations ==
  {"_inTransaction", "construct", "registerObject", "findOutdated",
   "updateConnection"}

\* C25: when _inTransaction, the Mirror constructor, registerObject,
\* findOutdated or updateConnection is called while the database is in a
\* transaction, the call throws "already in transaction" at once: no step
\* of the callback runs, and neither the call nor the throw commits or
\* rolls back: the connection's view and the committed database (so the
\* pending changes, their difference) are as before and the transaction is
\* still open.
C25_AlreadyInTransaction ==
  [][/\ (pc = "idle" /\ inTransaction /\ op' \in C25_Operations)
          => /\ pc' = "tx_return"
             /\ loc'.error = "already in transaction"
             /\ db' = db /\ disk' = disk /\ inTransaction'
     /\ (pc = "tx_return" /\ loc.error = "already in transaction")
          => /\ pc' = "idle"
             /\ db' = db /\ disk' = disk /\ inTransaction']_vars

\* updateConnection was refused while the caller's transaction held an
\* uncommitted row of tab, on a constructed mirror.
C25_Witness ==
  /\ Threw("updateConnection")
  /\ loc.error = "already in transaction"
  /\ inTransaction
  /\ mirror = 1
  /\ db.tab # disk.tab


\* The first n statements of the callback are INSERTs: none of them ends
\* or begins a transaction.
C26_OnlyInserts(n) ==
  \A k \in 1..n : args.fn.steps[k].kind = "INSERT"

C26_Inserted(n) == {args.fn.steps[k].value : k \in 1..n}

\* C26: while a callback that has not ended the transaction is running, and
\* until the COMMIT after its return, a second connection sees the database
\* as before the call; when _inTransaction then returns, the second
\* connection sees every row the callback inserted, the transaction is
\* closed, and the value returned is the callback's value (the TOTAL of
\* the column that the callback read).
C26_CommittedOnReturn ==
  /\ (/\ op = "_inTransaction"
      /\ pc \in {"fn", "tx_commit"}
      /\ C26_OnlyInserts(loc.i))
       => (inTransaction /\ disk = pre)
  /\ (/\ Returned("_inTransaction")
      /\ loc.i = Len(args.fn.steps)
      /\ C26_OnlyInserts(loc.i))
       => /\ ~ inTransaction
          /\ disk = db
          /\ db = [pre EXCEPT !.tab = @ \cup C26_Inserted(loc.i)]
          /\ loc.result = Total(pre.tab \cup C26_Inserted(loc.i))

C26_Witness ==
  /\ Returned("_inTransaction")
  /\ Len(args.fn.steps) = 2
  /\ C26_OnlyInserts(2)
  /\ pre.tab = {}
  /\ disk.tab = {1, 2}
  /\ loc.result = 3


\* The error the callback throws after its first n statements have run: the
\* error of statement n + 1 run inside the transaction, or the callback's
\* own JavaScript error after its last statement.
C27_ErrorOfCallback(n) ==
  IF n = Len(args.fn.steps)
    THEN "and then something goes wrong"
    ELSE IF args.fn.steps[n + 1].kind = "INSERT"
      THEN "SqliteError: SQLITE_CONSTRAINT_PRIMARYKEY"
      ELSE "SqliteError: cannot start a transaction within a transaction"

\* C27: when the callback throws, a statement's error or an error of its
\* own, after statements that did not end the transaction, _inTransaction
\* throws that same error, and by then the transaction is rolled back: the
\* connection and a second connection both see the database as before the
\* call, with none of the callback's rows, and no transaction is open.
C27_RolledBackOnThrow ==
  (/\ op = "_inTransaction"
   /\ pc \in {"tx_finally", "tx_return"}
   /\ loc.error # "already in transaction"
   /\ (args.fn.ending = "throw" \/ loc.i < Len(args.fn.steps))
   /\ C26_OnlyInserts(loc.i))
    => /\ loc.error = C27_ErrorOfCallback(loc.i)
       /\ disk = pre
       /\ pc = "tx_return" => (db = pre /\ ~ inTransaction)

\* INSERT 1; INSERT 2; INSERT 1 on an empty tab: the third statement fails
\* on the primary key after two rows were written.
C27_Witness ==
  /\ Threw("_inTransaction")
  /\ loc.error = "SqliteError: SQLITE_CONSTRAINT_PRIMARYKEY"
  /\ loc.i = 2
  /\ pre.tab = {}
  /\ db.tab = {}


\* The callback has run all its statements: INSERTs followed by one
\* statement of the given kind, which ended the transaction.
C28_EndedBy(kind) ==
  /\ op = "_inTransaction"
  /\ Len(args.fn.steps) >= 1
  /\ loc.i = Len(args.fn.steps)
  /\ C26_OnlyInserts(loc.i - 1)
  /\ args.fn.steps[loc.i].kind = kind

\* The database the callback left behind: its rows persisted by its COMMIT,
\* or discarded by its ROLLBACK.
C28_LeftBehind ==
  IF C28_EndedBy("COMMIT")
    THEN [pre EXCEPT !.tab = @ \cup C26_Inserted(loc.i - 1)]
    ELSE pre

\* C28: after a callback that ended the transaction with its own COMMIT or
\* ROLLBACK, _inTransaction runs no COMMIT and no ROLLBACK: the steps after
\* the callback change neither the connection's view nor the committed
\* database nor the outcome.  So a callback that commits and then throws
\* leaves its rows persisted and its error is thrown; a callback that rolls
\* back and then returns leaves its rows discarded and its value is
\* returned.
C28_NoSecondCommitOrRollback ==
  /\ []((pc = "tx_return" /\ (C28_EndedBy("COMMIT") \/ C28_EndedBy("ROLLBACK")))
          => /\ ~ inTransaction
             /\ db = C28_LeftBehind
             /\ disk = C28_LeftBehind
             /\ IF args.fn.ending = "throw"
                  THEN loc.error = "and then something goes wrong"
                  ELSE /\ loc.error = ""
                       /\ loc.result = Total(C28_LeftBehind.tab))
  /\ [][(pc \in {"tx_commit", "tx_finally"} /\ ~ inTransaction)
          => (pc' = "tx_return"
              /\ UNCHANGED <<db, disk, inTransaction, loc>>)]_vars

\* INSERT 1; COMMIT; throw on an empty tab.
C28_Witness ==
  /\ Threw("_inTransaction")
  /\ C28_EndedBy("COMMIT")
  /\ loc.i = 2
  /\ pre.tab = {}
  /\ disk.tab = {1}
  /\ loc.error = "and then something goes wrong"


C29_UpdateIds(d) == {u.rowid : u \in d.updates}

\* C29: no step of any operation of the mirror deletes a committed row of
\* objects (its id and typename stay) or deletes or changes a committed row
\* of updates (rowid and timestamp stay): the set of registered object ids
\* and the set of update ids only grow.
C29_RowsNeverDeleted ==
  [][/\ \A o \in disk.objects :
          \E o2 \in disk'.objects : o2.id = o.id /\ o2.typename = o.typename
     /\ disk.updates \subseteq disk'.updates
     /\ ObjectIds(disk) \subseteq ObjectIds(disk')
     /\ C29_UpdateIds(disk) \subseteq C29_UpdateIds(disk')]_vars

\* updateConnection has committed a newly registered node next to the
\* objects and updates committed before.
C29_Witness ==
  /\ Returned("updateConnection")
  /\ pre.objects # {}
  /\ Cardinality(pre.updates) = 2
  /\ ObjectIds(pre) # ObjectIds(disk)
  /\ ObjectIds(pre) \subseteq ObjectIds(disk)
  /\ pre.updates = disk.updates


\* The committed database holds no partial effect of a construction or of
\* a registration: a meta row only with the structural tables, and objects
\* only with a connection row for each of their CONNECTION fields.
C30_NoPartialEffect(d) ==
  /\ d.meta # NULL =>
       \A k \in 1..Len(structuralTables) : structuralTables[k] \in d.tables
  /\ C5_ConnectionRows(d)

\* C30: at every step of the Mirror constructor, of registerObject and of
\* updateConnection, what a teardown of the process would leave on disk is
\* the database before the operation, or, once the operation has run to
\* its normal end, the database it produced; it never holds a partial
\* effect.  A teardown itself changes nothing on disk, and the next
\* connection sees exactly the committed database.
C30_TeardownIsAtomic ==
  /\ []((op \in {"construct", "registerObject", "updateConnection"}
           /\ pc # "idle")
          => \/ disk = pre
             \/ pc = "tx_return" /\ loc.error = "" /\ disk = db)
  /\ []C30_NoPartialEffect(disk)
  /\ [][(pc # "idle" /\ pc' = "idle") => (disk' = disk /\ db' = disk)]_vars

\* The process can be torn down while updateConnection has written the
\* connection row, registered a node and added an entry, none of it
\* committed.
C30_Witness ==
  /\ op = "updateConnection"
  /\ pc = "upd_entry"
  /\ loc.nextIndex > 1
  /\ db.connections # disk.connections
  /\ db.objects # disk.objects
  /\ disk = pre
  /\ ENABLED Teardown


\* C32: updateConnection with an updateId that is not the rowid of a row of
\* updates throws, and the database is as before the call, for the
\* connection and on disk: the connection row is not pointed at the
\* missing update, and no entry and no child object is added.
C32_MissingUpdateRejected ==
  (/\ pc = "tx_return"
   /\ op = "updateConnection"
   /\ ~ \E u \in pre.updates : u.rowid = args.updateId)
    => /\ loc.error # ""
       /\ db = pre
       /\ disk = pre
       /\ ~ inTransaction

\* The connection exists and a response with a node was given, so the
\* UPDATE ran and failed on the reference to updates.
C32_Witness ==
  /\ Threw("updateConnection")
  /\ loc.error = "SqliteError"
  /\ ConnectionId(pre, args.objectId, args.fieldname) # NULL
  /\ ~ \E u \in pre.updates : u.rowid = args.updateId
  /\ Len(args.queryResult.nodes) >= 1
  /\ pre.updates # {}


C33_Rows ==
  {c \in pre.connections :
     c.object_id = args.objectId /\ c.fieldname = args.fieldname}

\* C33: _getEndCursor(objectId, fieldname) throws "No such connection"
\* exactly when no connection row (objectId, fieldname) exists; otherwise
\* it returns undefined exactly when the row's last_update is NULL, and the
\* stored end_cursor (a string or null) when last_update is not NULL.  It
\* leaves the database as it was.
C33_GetEndCursor ==
  (pc = "tx_return" /\ op = "getEndCursor")
    => /\ db = pre
       /\ disk = pre
       /\ (C33_Rows = {}) <=>
            (loc.error = NoSuchConnectionMessage(args.objectId, args.fieldname))
       /\ C33_Rows # {} =>
            /\ loc.error = ""
            /\ \A c \in C33_Rows :
                 /\ (c.last_update = NULL) <=> (loc.result = Undefined)
                 /\ c.last_update # NULL => loc.result = Given(c.end_cursor)

\* The connection was fetched and its stored cursor is null: the value
\* returned is null, not undefined.
C33_Witness ==
  /\ Returned("getEndCursor")
  /\ loc.result = Given(NULL)
  /\ \E c \in C33_Rows : c.last_update # NULL


\* The nullable columns of the connection rows of d agree: never fetched
\* (all NULL) or fetched (last_update, total_count and has_next_page set).
C35_NullTogether(d) ==
  \A c \in d.connections :
    /\ (c.last_update = NULL) <=> (c.total_count = NULL)
    /\ (c.total_count = NULL) <=> (c.has_next_page = NULL)
    /\ c.last_update = NULL => c.end_cursor = NULL

\* C35: in every state reached through the operations of the mirror, as
\* seen by the connection and as committed, every connection row has
\* last_update NULL if and only if total_count is NULL, if and only if
\* has_next_page is NULL, and a row whose last_update is NULL has a NULL
\* end_cursor.
C35_NullableColumnsAgree ==
  C35_NullTogether(db) /\ C35_NullTogether(disk)

\* Two committed connection rows, one never fetched and one fetched with
\* a cursor.
C35_Witness ==
  /\ pc = "idle"
  /\ \E c1, c2 \in disk.connections :
       /\ c1.last_update = NULL
       /\ c2.last_update # NULL
       /\ c2.end_cursor # NULL


\* The (idx, child_id) pairs of the entries of a connection.
C36_Pairs(entries) == {[idx |-> e.idx, child_id |-> e.child_id] : e \in entries}

C36_LargestIndex(entries) ==
  IF entries = {} THEN 0 ELSE Max({e.idx : e \in entries})

\* C36: a successful updateConnection whose response has n nodes, on a
\* connection whose largest index was m (0 without entries), keeps the
\* entries the connection had and adds exactly n entries, the i-th node of
\* the response at index m + i, one entry per occurrence of a node whether
\* or not its id already has an entry.
C36_EntriesAppended ==
  Returned("updateConnection") =>
    LET connectionId ==
          TheValue(ConnectionId(pre, args.objectId, args.fieldname))
        before == C7_EntriesOf(pre, connectionId)
        after == C7_EntriesOf(db, connectionId)
        m == C36_LargestIndex(before)
        nodes == args.queryResult.nodes
    IN /\ before \subseteq after
       /\ Cardinality(after \ before) = Len(nodes)
       /\ C36_Pairs(after \ before) =
            {[idx |-> m + i, child_id |-> nodes[i].id] : i \in 1..Len(nodes)}
       /\ disk = db

\* The response names the same node twice: it gets two entries.
C36_Witness ==
  /\ Returned("updateConnection")
  /\ Len(args.queryResult.nodes) = 2
  /\ args.queryResult.nodes[1].id = args.queryResult.nodes[2].id


\* C37: findOutdated never changes the store: none of its steps, from the
\* call to the return, changes what the connection sees or what is
\* committed, and it leaves no transaction open.  Both lists it returns
\* are computed from one committed state, the one the connection sees when
\* the call returns, even when another connection commits during the call.
C37_FindOutdatedReadsOneState ==
  /\ [](Returned("findOutdated") =>
          /\ ~ inTransaction
          /\ db = disk
          /\ loc.result.objects = OutdatedObjects(db, args.since)
          /\ loc.result.connections = OutdatedConnections(db, args.since))
  /\ [][(/\ op' = "findOutdated" \/ op = "findOutdated"
         /\ pc' # pc)
          => UNCHANGED <<db, disk>>]_vars

\* Another connection registered an object after the call and before the
\* first SELECT, and findOutdated reports the object and its connection.
C37_Witness ==
  /\ Returned("findOutdated")
  /\ db # pre
  /\ \E o \in loc.result.objects :
       /\ o.id \notin ObjectIds(pre)
       /\ \E c \in loc.result.connections : c.id = o.id


C38_NeverUpdated(d) == \A o \in d.objects : o.last_update = NULL

\* C38: no operation of the mirror writes objects.last_update: in every
\* state reached through the constructor, registerObject, createUpdate,
\* updateConnection and findOutdated it is NULL for every object, seen by
\* the connection or committed, so findOutdated(since).objects holds every
\* registered object, whatever `since` is.
C38_ObjectsAlwaysOutdated ==
  /\ C38_NeverUpdated(db)
  /\ C38_NeverUpdated(disk)
  /\ Returned("findOutdated") =>
       loc.result.objects =
         {[typename |-> o.typename, id |-> o.id] : o \in pre.objects}

\* findOutdated with the smallest threshold, after updates were created
\* and a connection was fetched under one of them, reports both objects.
C38_Witness ==
  /\ Returned("findOutdated")
  /\ args.since = 0
  /\ Cardinality(loc.result.objects) = 2
  /\ pre.updates # {}
  /\ \E c \in pre.connections : c.last_update # NULL


\* C40: a successful updateConnection on the connection (objectId,
\* fieldname) leaves every other connection row as it was, connections of
\* the same object included, as well as every entry of every other
\* connection, every row of updates, and the row (typename and
\* last_update) of every object registered before the call.
C40_UpdateConnectionFrame ==
  Returned("updateConnection") =>
    LET connectionId ==
          TheValue(ConnectionId(pre, args.objectId, args.fieldname))
    IN /\ {c \in pre.connections : c.rowid # connectionId}
            = {c \in db.connections :
                 c.rowid # connectionId /\ c.object_id \in ObjectIds(pre)}
       /\ {e \in pre.connection_entries : e.connection_id # connectionId}
            = {e \in db.connection_entries : e.connection_id # connectionId}
       /\ db.updates = pre.updates
       /\ pre.objects = {o \in db.objects : o.id \in ObjectIds(pre)}
       /\ disk = db

\* The call was on the comments of an issue; the issues connection of a
\* repository, fetched earlier with an entry, and the repository's own
\* last_update are as before.
C40_Witness ==
  /\ Returned("updateConnection")
  /\ args.fieldname = "comments"
  /\ Len(args.queryResult.nodes) = 1
  /\ \E c \in pre.connections :
       /\ c.fieldname = "issues"
       /\ c.last_update # NULL
       /\ \E e \in pre.connection_entries : e.connection_id = c.rowid
       /\ \E o \in pre.objects : o.id = c.object_id /\ o.last_update # NULL


\* Statements j and j + 1 of the callback are COMMIT and BEGIN, every other
\* statement is an INSERT, and the callback has run its BEGIN: it has
\* committed the transaction, begun a new one and not ended it.
C34_BeganAnew(j) ==
  /\ op = "_inTransaction"
  /\ j + 1 <= Len(args.fn.steps)
  /\ args.fn.steps[j].kind = "COMMIT"
  /\ args.fn.steps[j + 1].kind = "BEGIN"
  /\ \A k \in (1..Len(args.fn.steps)) \ {j, j + 1} :
       args.fn.steps[k].kind = "INSERT"
  /\ loc.i >= j + 1

\* The values of the INSERTs among statements from..to of the callback.
C34_Values(from, to) ==
  {args.fn.steps[k].value :
     k \in {x \in from..to : args.fn.steps[x].kind = "INSERT"}}

\* C34: when the callback commits the transaction, begins a new one and
\* leaves it open, _inTransaction ends the new transaction: on a normal
\* return it commits it (the rows written before and after the callback's
\* COMMIT are all persisted, and the callback's value is returned); on a
\* throw it rolls it back (only the rows written before the callback's
\* COMMIT are persisted, and the callback's error is thrown).
C34_NewTransactionEnded ==
  \A j \in 1..MaxSteps :
    (pc = "tx_return" /\ C34_BeganAnew(j))
      => /\ ~ inTransaction
         /\ db = disk
         /\ IF args.fn.ending = "return" /\ loc.i = Len(args.fn.steps)
              THEN /\ loc.error = ""
                   /\ db = [pre EXCEPT !.tab = @ \cup C34_Values(1, loc.i)]
                   /\ loc.result = Total(db.tab)
              ELSE /\ loc.error = C27_ErrorOfCallback(loc.i)
                   /\ db = [pre EXCEPT !.tab = @ \cup C34_Values(1, j)]

\* COMMIT; BEGIN; INSERT 1; return: the row is persisted.
C34_Witness ==
  /\ Returned("_inTransaction")
  /\ C34_BeganAnew(1)
  /\ loc.i = 3
  /\ pre.tab = {}
  /\ disk.tab = {1}


\* C39: when _inTransaction (called directly, or by the constructor,
\* registerObject, findOutdated or updateConnection) has begun its
\* transaction, the database is in no transaction when the call returns or
\* throws, and the connection sees exactly what is committed: whether the
\* callback returned, threw, committed, rolled back or began a further
\* transaction, and also when the final COMMIT fails.
C39_NoTransactionLeftOpen ==
  (/\ pc = "tx_return"
   /\ op \in C25_Operations
   /\ loc.error # "already in transaction")
    => (~ inTransaction /\ db = disk)

\* The final COMMIT failed and left the transaction open, after a callback
\* that had inserted two rows; the finally block rolled them back.
C39_Witness ==
  /\ Threw("_inTransaction")
  /\ loc.error = "SqliteError: SQLITE_BUSY"
  /\ loc.i = 2
  /\ C26_OnlyInserts(2)
  /\ pre.tab = {}
  /\ db = pre


\* findOutdated(CrawlSince) has nothing stale to report about connections:
\* the root is registered, no committed connection is outdated, and a
\* result just returned names none.
C31_Converged ==
  /\ mirror = 1
  /\ RootRegistered(disk)
  /\ OutdatedConnections(disk, CrawlSince) = {}
  /\ Returned("findOutdated") => loc.result.connections = {}

\* C31: against a finite remote graph that does not change and with the
\* root registered, the caller that keeps ingesting the next page of a
\* connection reported by findOutdated(since), under updates not older
\* than since, eventually reaches a state from which on findOutdated(since)
\* reports no stale connection.
C31_CrawlConverges == <>[]C31_Converged

\* findOutdated returned an empty list of connections after every issue
\* of the remote was ingested, page by page, and their empty connections
\* were fetched.
C31_Witness ==
  /\ Returned("findOutdated")
  /\ C31_Converged
  /\ Cardinality(disk.objects) = MaxEntries + 1
  /\ {e.idx : e \in disk.connection_entries} = 1..MaxEntries
  /\ \A c \in disk.connections : c.last_update # NULL

====
